---- MODULE Spec2Model ----
(***************************************************************************)
(* Voice-session orchestration of the Eleni Shepherd backend:              *)
(*   AudioProcessingService  (audio-processing.service.ts)                 *)
(*   SpeechToTextService     (speech-to-text.service.ts, lines 1-131)      *)
(*   ConversationService     (conversation.service.ts, lines 11-190)       *)
(* Every service call is one action: the handler from its first statement  *)
(* to its return, with the replies of the external engines (speech         *)
(* recognition, language model) drawn nondeterministically.                *)
(***************************************************************************)
EXTENDS Integers, Sequences, FiniteSets, TLC

(***************************************************************************)
(* Bounds of the model.                                                    *)
(***************************************************************************)
MaxTime == 4
MaxBufferBytes == 12

\* The audio specification drives Speaker through every operation; Bystander
\* only ever holds one chunk, to show what a call leaves of another session.
Sessions == {"s1", "s2"}
Speaker == "s1"
Bystander == "s2"

(***************************************************************************)
(* Configuration (ConfigService values; the code's fallbacks are 1500 ms   *)
(* and 8000 bytes) and the default VAD threshold.                          *)
(***************************************************************************)
SILENCE_THRESHOLD_MS == 2
MIN_AUDIO_LENGTH_BYTES == 12
VAD_THRESHOLD == 500

\* Map.get of a missing key, and an optional field that is not set; a value
\* that may be undefined is written Some(v) when it is set.
Undefined == [undefined |-> TRUE]
Some(v) == [value |-> v]

(***************************************************************************)
(* Audio chunks are byte sequences (Buffer).                               *)
(***************************************************************************)
Silence == <<0, 0, 0, 0>>
Hum == <<244, 1, 12, 254>>
Loud2 == <<232, 3>>
Loud6 == <<232, 3, 24, 252, 208, 7>>
Chunks == {Silence, Hum, Loud2, Loud6}

RECURSIVE SumLen(_)
SumLen(chunks) ==
  IF chunks = <<>> THEN 0 ELSE Len(Head(chunks)) + SumLen(Tail(chunks))

\* Buffer.concat(buffer.chunks.map(c => Buffer.from(c)))
RECURSIVE Concat(_)
Concat(chunks) ==
  IF chunks = <<>> THEN <<>> ELSE Head(chunks) \o Concat(Tail(chunks))

\* Buffer.readInt16LE(i), i counted from 0
readInt16LE(buf, i) ==
  LET u == buf[i + 1] + 256 * buf[i + 2]
  IN IF u >= 32768 THEN u - 65536 ELSE u

\* the loop of detectVoiceActivity: for (i = 0; i < length - 1; i += 2)
RECURSIVE SumSquares(_, _)
SumSquares(buf, i) ==
  IF i < Len(buf) - 1
  THEN readInt16LE(buf, i) * readInt16LE(buf, i) + SumSquares(buf, i + 2)
  ELSE 0

\* rms = sqrt(sum / (length / 2)) > threshold, for threshold >= 0, is
\* 2 * sum > threshold^2 * length.
detectVoiceActivity(audioBuffer, threshold) ==
  IF Len(audioBuffer) < 2
  THEN FALSE
  ELSE 2 * SumSquares(audioBuffer, 0) > threshold * threshold * Len(audioBuffer)

(***************************************************************************)
(* The speech-recognition engine.  A reply is a text (a sequence of        *)
(* characters) or a failure (transcribeAudio rethrows it).                 *)
(***************************************************************************)
SttFailure == [ok |-> FALSE]
SttText(t) == [ok |-> TRUE, text |-> t]
Texts == {<<>>, <<"H">>, <<" ", "h", " ">>, <<"h", " ", "e">>}
SttReplies == {SttFailure} \cup {SttText(t) : t \in Texts}

IsSpace(ch) == ch = " "

toLowerCase(text) ==
  [i \in 1..Len(text) |-> IF text[i] = "H" THEN "h" ELSE text[i]]

RECURSIVE trimStart(_)
trimStart(text) ==
  IF text # <<>> /\ IsSpace(Head(text)) THEN trimStart(Tail(text)) ELSE text

RECURSIVE trimEnd(_)
trimEnd(text) ==
  IF text # <<>> /\ IsSpace(text[Len(text)])
  THEN trimEnd(SubSeq(text, 1, Len(text) - 1))
  ELSE text

trim(text) == trimEnd(trimStart(text))

\* normalized.split(/\s+/).length: one more than the number of whitespace runs
splitLength(text) ==
  1 + Cardinality({i \in 1..Len(text) :
                     IsSpace(text[i]) /\ (i = 1 \/ ~IsSpace(text[i - 1]))})

\* mutant: a phrase of two words is not enough
detectWakeWordStrict(reply) ==
  IF ~reply.ok THEN FALSE
  ELSE IF reply.text = <<>> THEN FALSE
  ELSE splitLength(trim(toLowerCase(reply.text))) > 2

\* SpeechToTextService.detectWakeWord on the reply of its transcribeAudio call
detectWakeWord(reply) ==
  IF ~reply.ok THEN FALSE
  ELSE IF reply.text = <<>> THEN FALSE
  ELSE splitLength(trim(toLowerCase(reply.text))) >= 2

VARIABLES
  now,              \* Date.now()
  audioBuffers,     \* AudioProcessingService.audioBuffers
  sessionSettings,  \* AudioProcessingService.sessionSettings
  ret,              \* what the call made in the last step returned
  sttLog,           \* the transcribeAudio calls made by that call, in order
  heard,            \* history: the voice chunks a session submitted since
                    \* its buffer was last cleared, and when the last came
  cache,            \* the cache entries conversation:session:<sessionId>
  activeSessions,   \* the cache entry conversation:active_sessions
  llmLog,           \* the generateResponse calls made by the last call
  appended,         \* history: the messages appended to a session since it
                    \* was created or its history cleared
  sockets,          \* the realtime channel's clients: connected or not, and
                    \* the delivery loop running for each
  emitted,          \* the events the last step emitted to clients, in order
  inflight          \* the calls that have started and not returned: what
                    \* each one awaits and the locals it resumes with

audioVars == <<audioBuffers, sessionSettings, sttLog, heard>>
convVars == <<cache, activeSessions, llmLog, appended>>
gatewayVars == <<sockets, emitted>>
vars == <<now, ret, audioBuffers, sessionSettings, sttLog, heard,
          cache, activeSessions, llmLog, appended, sockets, emitted,
          inflight>>

NoCall == [op |-> "none"]

\* The calls that may be in progress at once, and a call slot that is free.
Calls == {"k1", "k2"}
Idle == [op |-> "none"]

(***************************************************************************)
(* AudioProcessingService                                                  *)
(***************************************************************************)
DefaultSettings ==
  [alwaysListen |-> FALSE, awake |-> FALSE, tapToListenExpiresAt |-> 0]

\* this.sessionSettings.get(sessionId) || { alwaysListen: false, awake: false }
\* (tapToListenExpiresAt is only ever read as `tapToListenExpiresAt || 0`)
settingsOf(settingsMap, sessionId) ==
  IF settingsMap[sessionId] = Undefined
  THEN DefaultSettings
  ELSE settingsMap[sessionId]

\* let buffer = this.audioBuffers.get(sessionId); if (!buffer) { ... }
bufferOf(buffers, sessionId, t) ==
  IF buffers[sessionId] = Undefined
  THEN [chunks |-> <<>>, totalBytes |-> 0, lastChunkTime |-> t]
  ELSE buffers[sessionId]

\* mutant: the chunk goes to the front of the list
pushChunkFront(buffer, audioChunk, t) ==
  [chunks |-> <<audioChunk>> \o buffer.chunks,
   totalBytes |-> buffer.totalBytes + Len(audioChunk),
   lastChunkTime |-> t]

\* buffer.chunks.push(audioChunk); totalBytes += length; lastChunkTime = new Date()
pushChunk(buffer, audioChunk, t) ==
  [chunks |-> Append(buffer.chunks, audioChunk),
   totalBytes |-> buffer.totalBytes + Len(audioChunk),
   lastChunkTime |-> t]

\* (settings.tapToListenExpiresAt || 0) > now
tapActive(settings, t) == settings.tapToListenExpiresAt > t

\* settings.alwaysListen && !settings.awake &&
\*   buffer.totalBytes >= this.MIN_AUDIO_LENGTH_BYTES / 4
wakeProbeDue(settings, buffer) ==
  /\ settings.alwaysListen
  /\ ~settings.awake
  /\ 4 * buffer.totalBytes >= MIN_AUDIO_LENGTH_BYTES

\* mutant: the silence has to exceed the threshold
utteranceBoundaryLate(buffer, t) ==
  /\ Len(buffer.chunks) > 0
  /\ buffer.totalBytes >= MIN_AUDIO_LENGTH_BYTES
  /\ t - buffer.lastChunkTime > SILENCE_THRESHOLD_MS

\* the condition of the silence branch
utteranceBoundary(buffer, t) ==
  /\ Len(buffer.chunks) > 0
  /\ buffer.totalBytes >= MIN_AUDIO_LENGTH_BYTES
  /\ t - buffer.lastChunkTime >= SILENCE_THRESHOLD_MS

\* mutant: the tap window is read the wrong way round
suppressedWhileTapped(currentSettings, t) ==
  /\ currentSettings.alwaysListen
  /\ ~currentSettings.awake
  /\ tapActive(currentSettings, t)

\* currentSettings.alwaysListen && !currentSettings.awake && !tapActive
suppressed(currentSettings, t) ==
  /\ currentSettings.alwaysListen
  /\ ~currentSettings.awake
  /\ ~tapActive(currentSettings, t)

\* { transcript, isFinal }, or the error the call throws
ChunkResult(sessionId, chunk, isFinal, transcript, threw) ==
  [op |-> "processAudioChunk", sessionId |-> sessionId, chunk |-> chunk,
   isFinal |-> isFinal, transcript |-> transcript, threw |-> threw]

\* one call of sttService.transcribeAudio: the audio handed over, the reply
SttCall(audio, reply) == [audio |-> audio, reply |-> reply]

\* mutant: the flag is left as it is
clearAwakeSkipped(settingsMap, sessionId, currentSettings) == settingsMap

\* if (currentSettings.awake) { currentSettings.awake = false; set(...) }
clearAwake(settingsMap, sessionId, currentSettings) ==
  IF currentSettings.awake
  THEN [settingsMap EXCEPT ![sessionId] =
          [currentSettings EXCEPT !.awake = FALSE]]
  ELSE settingsMap

\* The state and the result processAudioChunk leaves when it has voice.
\* probe is the engine's reply inside detectWakeWord, utter its reply to
\* the transcribeAudio call that follows a detection.
voiceBranch(buffers, settingsMap, sessionId, audioChunk, t, probe, utter) ==
  LET settings == settingsOf(settingsMap, sessionId)
      buffer == pushChunk(bufferOf(buffers, sessionId, t), audioChunk, t)
      stored == [buffers EXCEPT ![sessionId] = buffer]
      candidate == Concat(buffer.chunks)
      awakened == [settingsMap EXCEPT ![sessionId] =
                     [settings EXCEPT !.awake = TRUE]]
  IN IF wakeProbeDue(settings, buffer)
     THEN IF detectWakeWord(probe)
          THEN IF utter.ok
               THEN [audioBuffers |-> [stored EXCEPT ![sessionId] = Undefined],
                     sessionSettings |-> awakened,
                     calls |-> <<SttCall(candidate, probe),
                                 SttCall(candidate, utter)>>,
                     ret |-> ChunkResult(sessionId, audioChunk, TRUE,
                                         Some(utter.text), FALSE)]
               \* transcribeAudio throws inside the try: caught and logged
               ELSE [audioBuffers |-> stored,
                     sessionSettings |-> awakened,
                     calls |-> <<SttCall(candidate, probe),
                                 SttCall(candidate, utter)>>,
                     ret |-> ChunkResult(sessionId, audioChunk, FALSE,
                                         Undefined, FALSE)]
          ELSE [audioBuffers |-> stored,
                sessionSettings |-> settingsMap,
                calls |-> <<SttCall(candidate, probe)>>,
                ret |-> ChunkResult(sessionId, audioChunk, FALSE,
                                    Undefined, FALSE)]
     ELSE [audioBuffers |-> stored,
           sessionSettings |-> settingsMap,
           calls |-> <<>>,
           ret |-> ChunkResult(sessionId, audioChunk, FALSE, Undefined, FALSE)]

\* The state and the result processAudioChunk leaves when it has no voice.
silenceBranch(buffers, settingsMap, sessionId, audioChunk, t, utter) ==
  LET buffer == bufferOf(buffers, sessionId, t)
      stored == [buffers EXCEPT ![sessionId] = buffer]
      deleted == [buffers EXCEPT ![sessionId] = Undefined]
      completeAudio == Concat(buffer.chunks)
      currentSettings == settingsOf(settingsMap, sessionId)
  IN IF utteranceBoundary(buffer, t)
     THEN IF suppressed(currentSettings, t)
          THEN [audioBuffers |-> deleted,
                sessionSettings |-> settingsMap,
                calls |-> <<>>,
                ret |-> ChunkResult(sessionId, audioChunk, FALSE,
                                    Undefined, FALSE)]
          ELSE IF utter.ok
          THEN [audioBuffers |-> deleted,
                sessionSettings |->
                  clearAwake(settingsMap, sessionId, currentSettings),
                calls |-> <<SttCall(completeAudio, utter)>>,
                ret |-> ChunkResult(sessionId, audioChunk, TRUE,
                                    Some(utter.text), FALSE)]
          \* transcribeAudio throws: logged and rethrown
          ELSE [audioBuffers |-> deleted,
                sessionSettings |-> settingsMap,
                calls |-> <<SttCall(completeAudio, utter)>>,
                ret |-> ChunkResult(sessionId, audioChunk, FALSE,
                                    Undefined, TRUE)]
     ELSE [audioBuffers |-> stored,
           sessionSettings |-> settingsMap,
           calls |-> <<>>,
           ret |-> ChunkResult(sessionId, audioChunk, FALSE, Undefined, FALSE)]

processAudioChunk(buffers, settingsMap, sessionId, audioChunk, t, probe, utter) ==
  IF detectVoiceActivity(audioChunk, VAD_THRESHOLD)
  THEN voiceBranch(buffers, settingsMap, sessionId, audioChunk, t, probe, utter)
  ELSE silenceBranch(buffers, settingsMap, sessionId, audioChunk, t, utter)

\* A variant that starts from fresh settings every time.
setAlwaysListeningFresh(settingsMap, sessionId, enabled) ==
  [settingsMap EXCEPT ![sessionId] =
     [DefaultSettings EXCEPT !.alwaysListen = enabled]]

\* setAlwaysListening(sessionId, enabled)
setAlwaysListening(settingsMap, sessionId, enabled) ==
  LET settings == settingsOf(settingsMap, sessionId)
  IN [settingsMap EXCEPT ![sessionId] =
        [settings EXCEPT !.alwaysListen = enabled,
                         !.awake = IF ~enabled THEN FALSE ELSE @]]

\* mutant: the expiry is the duration, not a point in time
tapToListenRelative(settingsMap, sessionId, durationMs, t) ==
  LET settings == settingsOf(settingsMap, sessionId)
  IN [settingsMap EXCEPT ![sessionId] =
        [settings EXCEPT !.tapToListenExpiresAt = durationMs]]

\* tapToListen(sessionId, durationMs)
tapToListen(settingsMap, sessionId, durationMs, t) ==
  LET settings == settingsOf(settingsMap, sessionId)
  IN [settingsMap EXCEPT ![sessionId] =
        [settings EXCEPT !.tapToListenExpiresAt = t + durationMs]]

\* A variant that leaves the buffer where it is.
deleteBufferSkipped(buffers, sessionId) == buffers

\* stopAudioPlayback(sessionId) and cleanup(sessionId)
deleteBuffer(buffers, sessionId) == [buffers EXCEPT ![sessionId] = Undefined]

TapDurations == {1, 3}

NothingHeard == [chunks |-> <<>>, lastVoiceAt |-> 0]

(***************************************************************************)
(* Actions of the audio service                                            *)
(***************************************************************************)
Tick ==
  /\ now < MaxTime
  /\ now' = now + 1
  /\ UNCHANGED inflight
  /\ ret' = NoCall
  /\ sttLog' = <<>>
  /\ llmLog' = <<>>
  /\ UNCHANGED <<audioBuffers, sessionSettings, heard>>
  /\ emitted' = <<>>
  /\ UNCHANGED <<cache, activeSessions, appended, sockets>>

\* The engine replies are drawn for the calls the handler makes: the probe
\* inside detectWakeWord, and the transcription of the utterance.
ProbeReplies(sessionId, audioChunk) ==
  IF /\ detectVoiceActivity(audioChunk, VAD_THRESHOLD)
     /\ wakeProbeDue(settingsOf(sessionSettings, sessionId),
                     pushChunk(bufferOf(audioBuffers, sessionId, now),
                               audioChunk, now))
  THEN SttReplies
  ELSE {SttFailure}

UtteranceReplies(sessionId, audioChunk, probe) ==
  IF detectVoiceActivity(audioChunk, VAD_THRESHOLD)
  THEN IF /\ wakeProbeDue(settingsOf(sessionSettings, sessionId),
                          pushChunk(bufferOf(audioBuffers, sessionId, now),
                                    audioChunk, now))
          /\ detectWakeWord(probe)
       THEN SttReplies
       ELSE {SttFailure}
  ELSE IF /\ utteranceBoundary(bufferOf(audioBuffers, sessionId, now), now)
          /\ ~suppressed(settingsOf(sessionSettings, sessionId), now)
       THEN SttReplies
       ELSE {SttFailure}

ProcessAudioChunk(sessionId, audioChunk) ==
  \E probe \in ProbeReplies(sessionId, audioChunk) :
  \E utter \in UtteranceReplies(sessionId, audioChunk, probe) :
    LET hasVoice == detectVoiceActivity(audioChunk, VAD_THRESHOLD)
        out == processAudioChunk(audioBuffers, sessionSettings, sessionId,
                                 audioChunk, now, probe, utter)
    IN /\ hasVoice =>
            bufferOf(audioBuffers, sessionId, now).totalBytes + Len(audioChunk)
              <= MaxBufferBytes
       /\ audioBuffers' = out.audioBuffers
       /\ sessionSettings' = out.sessionSettings
       /\ UNCHANGED inflight
       /\ ret' = out.ret
       /\ sttLog' = out.calls
       /\ heard' = [heard EXCEPT ![sessionId] =
                      IF out.audioBuffers[sessionId] = Undefined
                      THEN NothingHeard
                      ELSE IF hasVoice
                      THEN [chunks |-> Append(@.chunks, audioChunk),
                            lastVoiceAt |-> now]
                      ELSE @]
       /\ UNCHANGED now
       /\ UNCHANGED convVars
       /\ UNCHANGED gatewayVars

SetAlwaysListening(sessionId, enabled) ==
  /\ sessionSettings' = setAlwaysListening(sessionSettings, sessionId, enabled)
  /\ UNCHANGED inflight
  /\ ret' = [op |-> "setAlwaysListening", sessionId |-> sessionId,
             enabled |-> enabled]
  /\ sttLog' = <<>>
  /\ UNCHANGED <<now, audioBuffers, heard>>
  /\ UNCHANGED convVars
  /\ UNCHANGED gatewayVars

TapToListen(sessionId, durationMs) ==
  /\ sessionSettings' = tapToListen(sessionSettings, sessionId, durationMs, now)
  /\ UNCHANGED inflight
  /\ ret' = [op |-> "tapToListen", sessionId |-> sessionId,
             durationMs |-> durationMs]
  /\ sttLog' = <<>>
  /\ UNCHANGED <<now, audioBuffers, heard>>
  /\ UNCHANGED convVars
  /\ UNCHANGED gatewayVars

StopAudioPlayback(sessionId) ==
  /\ audioBuffers' = deleteBuffer(audioBuffers, sessionId)
  /\ UNCHANGED inflight
  /\ ret' = [op |-> "stopAudioPlayback", sessionId |-> sessionId]
  /\ sttLog' = <<>>
  /\ heard' = [heard EXCEPT ![sessionId] = NothingHeard]
  /\ UNCHANGED <<now, sessionSettings>>
  /\ UNCHANGED convVars
  /\ UNCHANGED gatewayVars

Cleanup(sessionId) ==
  /\ audioBuffers' = deleteBuffer(audioBuffers, sessionId)
  /\ UNCHANGED inflight
  /\ ret' = [op |-> "cleanup", sessionId |-> sessionId]
  /\ sttLog' = <<>>
  /\ heard' = [heard EXCEPT ![sessionId] = NothingHeard]
  /\ UNCHANGED <<now, sessionSettings>>
  /\ UNCHANGED convVars
  /\ UNCHANGED gatewayVars

Init ==
  /\ now = 1
  /\ audioBuffers = [s \in Sessions |-> Undefined]
  /\ sessionSettings = [s \in Sessions |-> Undefined]
  /\ ret = NoCall
  /\ sttLog = <<>>
  /\ heard = [s \in Sessions |-> NothingHeard]
  /\ cache = [s \in Sessions |-> Undefined]
  /\ activeSessions = Undefined
  /\ llmLog = <<>>
  /\ appended = [s \in Sessions |-> <<>>]
  /\ sockets = [s \in Sessions |-> [connected |-> FALSE, stream |-> Undefined]]
  /\ emitted = <<>>
  /\ inflight = [k \in Calls |-> Idle]

BystanderChunk ==
  /\ audioBuffers[Bystander] = Undefined
  /\ ProcessAudioChunk(Bystander, Loud6)

Next ==
  \/ Tick
  \/ \E c \in Chunks : ProcessAudioChunk(Speaker, c)
  \/ \E e \in BOOLEAN : SetAlwaysListening(Speaker, e)
  \/ \E d \in TapDurations : TapToListen(Speaker, d)
  \/ StopAudioPlayback(Speaker)
  \/ \E s \in Sessions : Cleanup(s)
  \/ BystanderChunk

Spec == Init /\ [][Next]_vars

(***************************************************************************)
(* Vocabulary of the properties                                            *)
(***************************************************************************)
AlwaysListen(s) == settingsOf(sessionSettings, s).alwaysListen
Awake(s) == settingsOf(sessionSettings, s).awake
TapExpiry(s) == settingsOf(sessionSettings, s).tapToListenExpiresAt

Voiced(chunk) == detectVoiceActivity(chunk, VAD_THRESHOLD)

\* the step is a processAudioChunk call for s
ChunkCall(s) == ret'.op = "processAudioChunk" /\ ret'.sessionId = s

\* the chunks buffered for s
Buffered(buffers, s) ==
  IF buffers[s] = Undefined THEN <<>> ELSE buffers[s].chunks

\* enough voice has been heard from s, and the last of it long enough ago
SilenceElapsed(s) ==
  /\ SumLen(heard[s].chunks) >= MIN_AUDIO_LENGTH_BYTES
  /\ now - heard[s].lastVoiceAt >= SILENCE_THRESHOLD_MS

\* the call returns a final result whose transcript is the engine's reply
\* to the audio handed over in its last transcribeAudio call
FinalWith(audio) ==
  /\ ret'.isFinal
  /\ ~ret'.threw
  /\ sttLog' # <<>>
  /\ sttLog'[Len(sttLog')].audio = audio
  /\ sttLog'[Len(sttLog')].reply.ok
  /\ ret'.transcript = Some(sttLog'[Len(sttLog')].reply.text)

\* the last transcribeAudio call of the step was answered
Answered == sttLog' # <<>> /\ sttLog'[Len(sttLog')].reply.ok

(***************************************************************************)
(* C1  Endpointing finality.  For a session with always-listen off: a      *)
(* processAudioChunk call returns a final result only for a silent chunk   *)
(* that arrives when voice chunks of at least MIN_AUDIO_LENGTH_BYTES have   *)
(* been heard and at least SILENCE_THRESHOLD_MS have passed since the last *)
(* of them; that chunk returns (when the engine answers) a final result    *)
(* with the transcript of exactly the heard audio; the buffer is gone      *)
(* afterwards, so that no later silent chunk is final for that utterance.  *)
(***************************************************************************)
EndpointingFinality ==
  [][\A s \in Sessions :
       (ChunkCall(s) /\ ~AlwaysListen(s)) =>
          LET due == ~Voiced(ret'.chunk) /\ SilenceElapsed(s)
          IN /\ ret'.isFinal => due
             /\ due => /\ Len(sttLog') = 1
                       /\ Answered => FinalWith(Concat(heard[s].chunks))
                       /\ audioBuffers'[s] = Undefined
                       /\ heard'[s] = NothingHeard
             /\ ~due => sttLog' = <<>> /\ ~ret'.threw]_vars

EndpointingFinalityWitness ==
  /\ ret.op = "processAudioChunk"
  /\ ret.isFinal
  /\ ret.sessionId = Speaker
  /\ ~AlwaysListen(Speaker)
  /\ audioBuffers[Speaker] = Undefined
  /\ Len(sttLog) = 1
  /\ sttLog[1].audio = Loud2 \o Loud6 \o Loud2 \o Loud2
  /\ ret.transcript = Some(<<"h", " ", "e">>)

(***************************************************************************)
(* C2  Gating suppression.  A silent chunk that finds a non-empty buffer   *)
(* with totalBytes >= MIN_AUDIO_LENGTH_BYTES and a silence of at least     *)
(* SILENCE_THRESHOLD_MS, in a session with alwaysListen on, awake off and  *)
(* no unexpired tap window, returns a non-final result without transcript  *)
(* (nothing is transcribed), and the buffer is cleared all the same.       *)
(***************************************************************************)
AtBoundary(s) ==
  /\ audioBuffers[s] # Undefined
  /\ Len(audioBuffers[s].chunks) > 0
  /\ audioBuffers[s].totalBytes >= MIN_AUDIO_LENGTH_BYTES
  /\ now - audioBuffers[s].lastChunkTime >= SILENCE_THRESHOLD_MS

GatingSuppression ==
  [][\A s \in Sessions :
       (/\ ChunkCall(s)
        /\ ~Voiced(ret'.chunk)
        /\ AtBoundary(s)
        /\ AlwaysListen(s) /\ ~Awake(s) /\ TapExpiry(s) <= now)
       => /\ ~ret'.isFinal
          /\ ret'.transcript = Undefined
          /\ ~ret'.threw
          /\ sttLog' = <<>>
          /\ audioBuffers'[s] = Undefined]_vars

\* a silent chunk leaves no buffer only when it met a boundary
GatingSuppressionWitness ==
  /\ ret.op = "processAudioChunk"
  /\ ret.sessionId = Speaker
  /\ ~Voiced(ret.chunk)
  /\ audioBuffers[Speaker] = Undefined
  /\ AlwaysListen(Speaker) /\ ~Awake(Speaker) /\ TapExpiry(Speaker) <= now
  /\ ~ret.isFinal /\ ~ret.threw
  /\ sttLog = <<>>

(***************************************************************************)
(* C3  Wake path bypass.  A voice chunk for a session with alwaysListen on *)
(* and awake off that brings the buffered bytes to a quarter of            *)
(* MIN_AUDIO_LENGTH_BYTES is probed on the whole buffered audio; when the  *)
(* probe's transcript has at least two whitespace-separated tokens the     *)
(* same call transcribes that audio and (the engine answering) returns a   *)
(* final result with its transcript, with no silence, and clears the       *)
(* buffer.                                                                 *)
(***************************************************************************)
Tokens(text) ==
  Cardinality({i \in 1..Len(text) :
                 ~IsSpace(text[i]) /\ (i = 1 \/ IsSpace(text[i - 1]))})

WakePathBypass ==
  [][\A s \in Sessions :
       (/\ ChunkCall(s)
        /\ Voiced(ret'.chunk)
        /\ AlwaysListen(s) /\ ~Awake(s)
        /\ 4 * (SumLen(heard[s].chunks) + Len(ret'.chunk))
              >= MIN_AUDIO_LENGTH_BYTES)
       => LET candidate == Concat(Append(heard[s].chunks, ret'.chunk))
          IN /\ Len(sttLog') >= 1
             /\ sttLog'[1].audio = candidate
             /\ (sttLog'[1].reply.ok /\ Tokens(sttLog'[1].reply.text) >= 2)
                  => /\ Len(sttLog') = 2
                     /\ Answered => /\ FinalWith(candidate)
                                    /\ audioBuffers'[s] = Undefined]_vars

WakePathBypassWitness ==
  /\ ret.op = "processAudioChunk"
  /\ ret.sessionId = Speaker
  /\ Voiced(ret.chunk)
  /\ ret.isFinal
  /\ Len(sttLog) = 2
  /\ sttLog[1].reply = SttText(<<"h", " ", "e">>)
  /\ sttLog[2].audio = Loud2 \o Loud2
  /\ ret.transcript = Some(<<"H">>)
  /\ audioBuffers[Speaker] = Undefined
  /\ heard[Speaker] = NothingHeard

(***************************************************************************)
(* C4  Tap-to-listen override.  tapToListen(s, d) sets the expiry to       *)
(* now + d.  A boundary reached while alwaysListen is on and awake is off  *)
(* is transcribed and returned as a final result as long as the expiry is  *)
(* still ahead; once the expiry is reached the same boundary is            *)
(* suppressed.                                                             *)
(***************************************************************************)
TapOverride ==
  [][\A s \in Sessions :
       /\ (ret'.op = "tapToListen" /\ ret'.sessionId = s)
            => settingsOf(sessionSettings', s).tapToListenExpiresAt
                 = now + ret'.durationMs
       /\ (/\ ChunkCall(s)
           /\ ~Voiced(ret'.chunk)
           /\ AtBoundary(s)
           /\ AlwaysListen(s) /\ ~Awake(s))
          => /\ TapExpiry(s) > now
                  => /\ Len(sttLog') = 1
                     /\ Answered
                          => FinalWith(Concat(audioBuffers[s].chunks))
             /\ TapExpiry(s) <= now
                  => ~ret'.isFinal /\ sttLog' = <<>>]_vars

TapOverrideWitness ==
  /\ ret.op = "processAudioChunk"
  /\ ret.sessionId = Speaker
  /\ ~Voiced(ret.chunk)
  /\ ret.isFinal
  /\ ret.transcript = Some(<<"h", " ", "e">>)
  /\ AlwaysListen(Speaker) /\ ~Awake(Speaker)
  /\ TapExpiry(Speaker) = now + 1
  /\ audioBuffers[Speaker] = Undefined

(***************************************************************************)
(* C5  Awake reset, as claimed: whenever processAudioChunk has returned a  *)
(* final result, by the wake-word path or by the endpointing path, the     *)
(* session's awake flag is false.                                          *)
(***************************************************************************)
AwakeResetAfterFinal ==
  \A s \in Sessions :
    (ret.op = "processAudioChunk" /\ ret.sessionId = s /\ ret.isFinal)
      => ~Awake(s)

(***************************************************************************)
(* C5  Awake reset, amended: a final result of the endpointing path (a     *)
(* silent chunk) leaves awake false; a final result of the wake-word path  *)
(* (a voice chunk) leaves awake true.                                      *)
(***************************************************************************)
AwakeResetAfterEndpointing ==
  \A s \in Sessions :
    (ret.op = "processAudioChunk" /\ ret.sessionId = s /\ ret.isFinal)
      => (Awake(s) <=> Voiced(ret.chunk))

\* with alwaysListen on and no tap window the utterance was delivered
\* because the session was awake
AwakeResetWitness ==
  /\ ret.op = "processAudioChunk"
  /\ ret.sessionId = Speaker
  /\ ret.isFinal
  /\ ~Voiced(ret.chunk)
  /\ AlwaysListen(Speaker)
  /\ TapExpiry(Speaker) <= now
  /\ ~Awake(Speaker)

(***************************************************************************)
(* C6  Buffer integrity.  A buffer that exists holds, in arrival order,    *)
(* exactly the voice chunks heard since the last clear, and totalBytes is  *)
(* the sum of their lengths.  A step leaves the chunks alone, appends the  *)
(* voice chunk of the call, or removes all of them with the buffer; the    *)
(* last only when the call returns a final result or met an utterance      *)
(* boundary, or is cleanup or stopAudioPlayback.  A silent chunk leaves a  *)
(* non-empty buffer exactly as it was unless it ends the utterance.        *)
(***************************************************************************)
UtteranceEnded(s) ==
  \/ ret'.op \in {"cleanup", "stopAudioPlayback"} /\ ret'.sessionId = s
  \/ ChunkCall(s) /\ ret'.isFinal
  \/ ChunkCall(s) /\ ~Voiced(ret'.chunk) /\ SilenceElapsed(s)

BufferIntegrity ==
  /\ [](\A s \in Sessions :
          audioBuffers[s] # Undefined =>
            /\ audioBuffers[s].chunks = heard[s].chunks
            /\ audioBuffers[s].totalBytes = SumLen(audioBuffers[s].chunks)
            /\ \A i \in 1..Len(audioBuffers[s].chunks) :
                 Voiced(audioBuffers[s].chunks[i]))
  /\ [][\A s \in Sessions :
          LET before == Buffered(audioBuffers, s)
              after == Buffered(audioBuffers', s)
          IN /\ \/ after = before
                \/ /\ ChunkCall(s)
                   /\ Voiced(ret'.chunk)
                   /\ after = Append(before, ret'.chunk)
                \/ /\ after = <<>>
                   /\ audioBuffers'[s] = Undefined
                   /\ UtteranceEnded(s)
             /\ (ChunkCall(s) /\ ~Voiced(ret'.chunk) /\ before # <<>>)
                  => \/ audioBuffers'[s] = audioBuffers[s]
                     \/ audioBuffers'[s] = Undefined /\ SilenceElapsed(s)]_vars

\* two different chunks in their order of arrival, left alone by a silent chunk
BufferIntegrityWitness ==
  /\ ret.op = "processAudioChunk"
  /\ ret.sessionId = Speaker
  /\ ~Voiced(ret.chunk)
  /\ audioBuffers[Speaker] # Undefined
  /\ audioBuffers[Speaker].chunks = <<Loud2, Loud6, Loud2>>
  /\ audioBuffers[Speaker].totalBytes = 10
  /\ audioBuffers[Speaker].lastChunkTime < now

\* ------------------------------------------------------------------------
\* Conversation Session Store (ConversationService)
\* ------------------------------------------------------------------------

\* How many exchanges (a user message and its reply) a session of the
\* general specification may have, and how many the session of the
\* history-cap specification.
MaxTurns == 2
MaxCapTurns == 12

\* "Keep history manageable (last 20 messages)"
HISTORY_LIMIT == 20

Null == [null |-> TRUE]

createAppResponse(success, message, data, status) ==
  [success |-> success, message |-> message, data |-> data,
   status |-> status]

\* The cache is a Redis store: a value is serialised when it is set and
\* parsed when it is read. A Date becomes its ISO string, which
\* reviveSession turns into a Date again.
Iso(t) == [iso |-> t]

toJSON(session) ==
  [session EXCEPT !.createdAt = Iso(session.createdAt),
                  !.lastActivityAt = Iso(session.lastActivityAt)]

reviveSession(session) ==
  IF session = Undefined THEN session
  ELSE [session EXCEPT !.createdAt = session.createdAt.iso,
                       !.lastActivityAt = session.lastActivityAt.iso]

\* A variant whose key does not depend on the session id.
cacheSetAnyKey(cacheMap, sessionId, session) ==
  [s \in DOMAIN cacheMap |-> toJSON(session)]

cacheSet(cacheMap, sessionId, session) ==
  [cacheMap EXCEPT ![sessionId] = toJSON(session)]

cacheDel(cacheMap, sessionId) == [cacheMap EXCEPT ![sessionId] = Undefined]

includes(list, id) == \E i \in 1..Len(list) : list[i] = id

indexOf(list, id) == CHOOSE i \in 1..Len(list) : 
  list[i] = id /\ \A j \in 1..(i - 1) : list[j] # id

splice(list, idx) ==
  [i \in 1..(Len(list) - 1) |-> IF i < idx THEN list[i] ELSE list[i + 1]]

orEmpty(index) == IF index = Undefined THEN <<>> ELSE index.value

\* A variant that pushes the id without looking for it first.
addActiveSessionIdAgain(index, sessionId) ==
  Some(Append(orEmpty(index), sessionId))

\* The list is written back only when the id was added to it.
addActiveSessionId(index, sessionId) ==
  LET list == orEmpty(index)
  IN  IF includes(list, sessionId) THEN index
      ELSE Some(Append(list, sessionId))

\* The list is written back only when the id was found in it.
removeActiveSessionId(index, sessionId) ==
  LET list == orEmpty(index)
  IN  IF includes(list, sessionId)
      THEN Some(splice(list, indexOf(list, sessionId)))
      ELSE index

\* What one operation of the store leaves behind and returns.
StoreResult(cacheMap, index, calls, resp) ==
  [cache |-> cacheMap, activeSessions |-> index, calls |-> calls,
   resp |-> resp]

newSession(sessionId, userId, t) ==
  [sessionId |-> sessionId, userId |-> userId, messages |-> <<>>,
   context |-> "", createdAt |-> t, lastActivityAt |-> t,
   interrupted |-> FALSE]

initializeSession(cacheMap, index, sessionId, userId, t) ==
  LET session == newSession(sessionId, userId, t)
  IN  StoreResult(cacheSet(cacheMap, sessionId, session),
                  addActiveSessionId(index, sessionId), <<>>,
                  createAppResponse(TRUE, "Session created", session, 201))

\* A variant that answers for an absent session with a blank one.
getSessionLenient(cacheMap, sessionId) ==
  LET session == reviveSession(cacheMap[sessionId])
  IN  IF session = Undefined
      THEN createAppResponse(TRUE, "Session retrieved",
                             newSession(sessionId, Undefined, 0), 200)
      ELSE createAppResponse(TRUE, "Session retrieved", session, 200)

getSession(cacheMap, sessionId) ==
  LET session == reviveSession(cacheMap[sessionId])
  IN  IF session = Undefined
      THEN createAppResponse(FALSE, "Session not found", Null, 404)
      ELSE createAppResponse(TRUE, "Session retrieved", session, 200)

addContext(cacheMap, index, sessionId, context, t) ==
  LET rawResp == getSession(cacheMap, sessionId)
      session == [rawResp.data EXCEPT !.context = context,
                                      !.lastActivityAt = t]
  IN  IF ~rawResp.success THEN StoreResult(cacheMap, index, <<>>, rawResp)
      ELSE StoreResult(cacheSet(cacheMap, sessionId, session), index, <<>>,
                       createAppResponse(TRUE, "Context added", session, 200))

userMsg(userMessage) == [role |-> "user", content |-> Some(userMessage)]

assistantMsg(aiResponseResp) ==
  [role |-> "assistant", content |-> aiResponseResp.data]

\* A variant that puts the new message in front of the list.
pushMessageFront(messages, msg) == <<msg>> \o messages

pushMessage(messages, msg) == Append(messages, msg)

\* A variant that keeps the first messages instead of the last.
trimHistoryHead(messages) ==
  IF Len(messages) > HISTORY_LIMIT
  THEN SubSeq(messages, 1, HISTORY_LIMIT)
  ELSE messages

\* messages.slice(-20) when there are more than 20
trimHistory(messages) ==
  IF Len(messages) > HISTORY_LIMIT
  THEN SubSeq(messages, Len(messages) - HISTORY_LIMIT + 1, Len(messages))
  ELSE messages

\* One call to the Completion Gateway: what it was given and its result.
LlmCall(messages, context, aiResponseResp) ==
  [messages |-> messages, context |-> context, reply |-> aiResponseResp]

\* A variant that leaves the interrupted flag as it found it.
processMessageKeepsFlag(cacheMap, index, sessionId, userMessage, t, aiResponseResp) ==
  LET rawResp == getSession(cacheMap, sessionId)
      asked == pushMessage(rawResp.data.messages, userMsg(userMessage))
      answered == pushMessage(asked, assistantMsg(aiResponseResp))
      session == [rawResp.data EXCEPT !.messages = trimHistory(answered),
                                      !.lastActivityAt = t]
  IN  IF ~rawResp.success THEN StoreResult(cacheMap, index, <<>>, rawResp)
      ELSE StoreResult(
             cacheSet(cacheMap, sessionId, session), index,
             <<LlmCall(asked, rawResp.data.context, aiResponseResp)>>,
             createAppResponse(TRUE, "Message processed",
               [response |-> aiResponseResp.data, sessionId |-> sessionId],
               200))

\* aiResponseResp is what llmService.generateResponse resolved to.
processMessage(cacheMap, index, sessionId, userMessage, t, aiResponseResp) ==
  LET rawResp == getSession(cacheMap, sessionId)
      asked == pushMessage(rawResp.data.messages, userMsg(userMessage))
      answered == pushMessage(asked, assistantMsg(aiResponseResp))
      session == [rawResp.data EXCEPT !.messages = trimHistory(answered),
                                      !.lastActivityAt = t,
                                      !.interrupted = FALSE]
  IN  IF ~rawResp.success THEN StoreResult(cacheMap, index, <<>>, rawResp)
      ELSE StoreResult(
             cacheSet(cacheMap, sessionId, session), index,
             <<LlmCall(asked, rawResp.data.context, aiResponseResp)>>,
             createAppResponse(TRUE, "Message processed",
               [response |-> aiResponseResp.data, sessionId |-> sessionId],
               200))

setInterrupted(cacheMap, index, sessionId, interrupted) ==
  LET rawResp == getSession(cacheMap, sessionId)
      session == [rawResp.data EXCEPT !.interrupted = interrupted]
  IN  IF ~rawResp.success THEN StoreResult(cacheMap, index, <<>>, rawResp)
      ELSE StoreResult(cacheSet(cacheMap, sessionId, session), index, <<>>,
             createAppResponse(TRUE, "Session interrupted flag updated",
                               session, 200))

endSession(cacheMap, index, sessionId) ==
  LET rawResp == getSession(cacheMap, sessionId)
  IN  IF ~rawResp.success THEN StoreResult(cacheMap, index, <<>>, rawResp)
      ELSE StoreResult(cacheDel(cacheMap, sessionId),
                       removeActiveSessionId(index, sessionId), <<>>,
                       createAppResponse(TRUE, "Session ended", Null, 200))

\* A variant that starts the session over, context included.
clearHistoryAndContext(cacheMap, index, sessionId, t) ==
  LET rawResp == getSession(cacheMap, sessionId)
      session == [rawResp.data EXCEPT !.messages = <<>>,
                                      !.context = "",
                                      !.lastActivityAt = t]
  IN  IF ~rawResp.success THEN StoreResult(cacheMap, index, <<>>, rawResp)
      ELSE StoreResult(cacheSet(cacheMap, sessionId, session), index, <<>>,
             createAppResponse(TRUE, "History cleared", session, 200))

clearHistory(cacheMap, index, sessionId, t) ==
  LET rawResp == getSession(cacheMap, sessionId)
      session == [rawResp.data EXCEPT !.messages = <<>>,
                                      !.lastActivityAt = t]
  IN  IF ~rawResp.success THEN StoreResult(cacheMap, index, <<>>, rawResp)
      ELSE StoreResult(cacheSet(cacheMap, sessionId, session), index, <<>>,
             createAppResponse(TRUE, "History cleared", session, 200))

\* ------------------------------------------------------------------------
\* Completion Gateway (LlmService.generateResponse), as the store calls it:
\* it resolves to a result that carries the reply text in data, or to a
\* failure result without one.
\* ------------------------------------------------------------------------

generateResponse ==
  { createAppResponse(TRUE, "Response generated", Some("ok"), 200),
    createAppResponse(FALSE, "Failed to generate response", Null, 500) }

UserTexts == {"a", "b"}
Contexts == {"geo", "math"}
NoUser == Undefined
KnownUser == Some("u1")

\* ------------------------------------------------------------------------
\* Conversation actions: one call of a store operation, start to return
\* ------------------------------------------------------------------------

Stored(out) ==
  /\ cache' = out.cache
  /\ activeSessions' = out.activeSessions
  /\ llmLog' = out.calls
  /\ UNCHANGED now
  /\ UNCHANGED audioVars
  /\ UNCHANGED gatewayVars

InitializeSession(sessionId, userId) ==
  LET out == initializeSession(cache, activeSessions, sessionId, userId, now)
  IN  /\ Stored(out)
      /\ appended' = [appended EXCEPT ![sessionId] = <<>>]
      /\ UNCHANGED inflight
      /\ ret' = [op |-> "initializeSession", sessionId |-> sessionId,
                 resp |-> out.resp]

GetSession(sessionId) ==
  /\ UNCHANGED inflight
  /\ ret' = [op |-> "getSession", sessionId |-> sessionId,
             resp |-> getSession(cache, sessionId)]
  /\ llmLog' = <<>>
  /\ UNCHANGED <<now, cache, activeSessions, appended>>
  /\ UNCHANGED audioVars
  /\ UNCHANGED gatewayVars

AddContext(sessionId, context) ==
  LET out == addContext(cache, activeSessions, sessionId, context, now)
  IN  /\ Stored(out)
      /\ UNCHANGED appended
      /\ UNCHANGED inflight
      /\ ret' = [op |-> "addContext", sessionId |-> sessionId,
                 context |-> context, resp |-> out.resp]

\* turns bounds how many exchanges the session may have had.
ProcessMessage(sessionId, userMessage, turns) ==
  /\ Len(appended[sessionId]) < 2 * turns
  /\ \E aiResponseResp \in generateResponse :
       LET out == processMessage(cache, activeSessions, sessionId,
                                 userMessage, now, aiResponseResp)
       IN  /\ Stored(out)
           /\ appended' =
                IF out.resp.success
                THEN [appended EXCEPT ![sessionId] =
                        @ \o <<userMsg(userMessage),
                               assistantMsg(aiResponseResp)>>]
                ELSE appended
           /\ UNCHANGED inflight
           /\ ret' = [op |-> "processMessage", sessionId |-> sessionId,
                      userMessage |-> userMessage, resp |-> out.resp]

SetInterrupted(sessionId, interrupted) ==
  LET out == setInterrupted(cache, activeSessions, sessionId, interrupted)
  IN  /\ Stored(out)
      /\ UNCHANGED appended
      /\ UNCHANGED inflight
      /\ ret' = [op |-> "setInterrupted", sessionId |-> sessionId,
                 interrupted |-> interrupted, resp |-> out.resp]

EndSession(sessionId) ==
  LET out == endSession(cache, activeSessions, sessionId)
  IN  /\ Stored(out)
      /\ appended' = IF out.resp.success
                     THEN [appended EXCEPT ![sessionId] = <<>>]
                     ELSE appended
      /\ UNCHANGED inflight
      /\ ret' = [op |-> "endSession", sessionId |-> sessionId,
                 resp |-> out.resp]

ClearHistory(sessionId) ==
  LET out == clearHistory(cache, activeSessions, sessionId, now)
  IN  /\ Stored(out)
      /\ appended' = IF out.resp.success
                     THEN [appended EXCEPT ![sessionId] = <<>>]
                     ELSE appended
      /\ UNCHANGED inflight
      /\ ret' = [op |-> "clearHistory", sessionId |-> sessionId,
                 resp |-> out.resp]

\* The store with two sessions: every operation on the speaker's session,
\* and a second session that is created and ended beside it.
NextConv ==
  \/ Tick
  \/ InitializeSession(Speaker, NoUser)
  \/ GetSession(Speaker)
  \/ \E c \in Contexts : AddContext(Speaker, c)
  \/ \E m \in UserTexts : ProcessMessage(Speaker, m, MaxTurns)
  \/ \E i \in BOOLEAN : SetInterrupted(Speaker, i)
  \/ EndSession(Speaker)
  \/ ClearHistory(Speaker)
  \/ InitializeSession(Bystander, KnownUser)
  \/ EndSession(Bystander)

SpecConv == Init /\ [][NextConv]_vars

\* One session that keeps talking until its history is longer than the cap.
NextCap ==
  \/ cache[Speaker] = Undefined /\ InitializeSession(Speaker, NoUser)
  \/ ProcessMessage(Speaker, "a", MaxCapTurns)

SpecCap == Init /\ [][NextCap]_vars

\* ------------------------------------------------------------------------
\* Vocabulary of the conversation properties
\* ------------------------------------------------------------------------

Exists(s) == cache[s] # Undefined
FoundBefore(s) == reviveSession(cache[s])
FoundAfter(s) == reviveSession(cache'[s])
StoreCall(op, s) == ret'.op = op /\ ret'.sessionId = s
NotFound(resp) == ~resp.success /\ resp.status = 404 /\ resp.data = Null

\* The last n elements of a sequence, in their order.
MostRecent(seq, n) ==
  IF Len(seq) <= n THEN seq
  ELSE [i \in 1..n |-> seq[Len(seq) - n + i]]

\* ------------------------------------------------------------------------
\* C7 (message cap). After every append made by processMessage a stored
\* session holds at most 20 messages, and they are the most recently
\* appended ones in the order they were appended: all of them while no
\* more than 20 were appended, the last 20 afterwards.
\* ------------------------------------------------------------------------

MessageCap ==
  \A s \in Sessions :
    Exists(s) =>
      /\ Len(cache[s].messages) <= 20
      /\ cache[s].messages = MostRecent(appended[s], 20)

\* Twenty-four messages were appended, both answered and unanswered
\* exchanges among them, and the four oldest are gone.
MessageCapWitness ==
  /\ Exists(Speaker)
  /\ Len(appended[Speaker]) = 24
  /\ Len(cache[Speaker].messages) = 20
  /\ cache[Speaker].messages[1] = appended[Speaker][5]
  /\ cache[Speaker].messages # SubSeq(appended[Speaker], 1, 20)

\* ------------------------------------------------------------------------
\* C8 (session lifecycle idempotence). A second endSession, right after the
\* call that removed the session, reports no error and leaves the cache and
\* the active index as they were; a getSession right after the endSession
\* reports NotFound.
\* ------------------------------------------------------------------------

EndSessionIdempotent ==
  [][ (ret.op = "endSession" /\ ret.resp.success) =>
        /\ StoreCall("endSession", ret.sessionId) =>
             /\ ret'.resp.success
             /\ cache' = cache
             /\ activeSessions' = activeSessions
        /\ StoreCall("getSession", ret.sessionId) => NotFound(ret'.resp)
    ]_vars

\* ------------------------------------------------------------------------
\* C9 (processMessage). On an existing session processMessage calls the
\* Completion Gateway exactly once, with the previous messages followed by
\* the new user message and with the session's context; it persists the
\* previous messages followed by the user message and the assistant reply,
\* stamps lastActivityAt with the time of the call and changes nothing else
\* of the store; it returns the reply, which is a non-empty text when the
\* gateway answered.
\* ------------------------------------------------------------------------

NotFoundOps == {"addContext", "processMessage", "setInterrupted",
                "clearHistory"}

NotFoundUntouched ==
  [][ \A s \in Sessions :
        (ret'.op \in NotFoundOps /\ ret'.sessionId = s /\ ~Exists(s)) =>
          /\ NotFound(ret'.resp)
          /\ cache' = cache
          /\ activeSessions' = activeSessions
          /\ llmLog' = <<>>
    ]_vars

\* processMessage for an ended session, while another session is stored
\* and indexed.
NotFoundUntouchedWitness ==
  /\ ret.op = "processMessage"
  /\ ret.sessionId = Speaker
  /\ NotFound(ret.resp)
  /\ ~Exists(Speaker)
  /\ Exists(Bystander)
  /\ activeSessions = Some(<<Bystander>>)
  /\ llmLog = <<>>

\* ------------------------------------------------------------------------
\* C11 (upstream failure is distinct and non-corrupting). When the
\* Completion Gateway call made by processMessage on an existing session
\* fails, the caller gets a failure that is not the NotFound one (no
\* success, no 404) and the stored session is as it was before the call.
\* ------------------------------------------------------------------------

UpstreamFailed == Len(llmLog') = 1 /\ ~llmLog'[1].reply.success

IndexList == IF activeSessions = Undefined THEN <<>> ELSE activeSessions.value

ActiveIndexConsistent ==
  /\ \A s \in Sessions :
       (\E i \in 1..Len(IndexList) : IndexList[i] = s) <=> Exists(s)
  /\ \A i, j \in 1..Len(IndexList) : IndexList[i] = IndexList[j] => i = j

\* Both sessions are stored; the speaker's id entered the index first, yet
\* its session is the younger one: it was initialized again while stored.
ActiveIndexWitness ==
  /\ activeSessions = Some(<<Speaker, Bystander>>)
  /\ Exists(Speaker) /\ Exists(Bystander)
  /\ ret.op = "initializeSession" /\ ret.sessionId = Speaker
  /\ cache[Speaker].createdAt.iso > cache[Bystander].createdAt.iso

\* ------------------------------------------------------------------------
\* Voice-activity detection on its own: detectVoiceActivity applied to
\* every buffer of up to MaxVadBytes bytes over VadBytes, whose pairs make
\* samples at, just above and far from the threshold, of both signs.
\* ------------------------------------------------------------------------

MaxVadBytes == 3

VadBytes == {0, 1, 12, 244, 245, 254}

VadBuffers == UNION { [1..n -> VadBytes] : n \in 0..MaxVadBytes }

DetectVoiceActivity(audioBuffer, threshold) ==
  /\ UNCHANGED inflight
  /\ ret' = [op |-> "detectVoiceActivity", audioBuffer |-> audioBuffer,
             threshold |-> threshold,
             result |-> detectVoiceActivity(audioBuffer, threshold)]
  /\ UNCHANGED now
  /\ UNCHANGED audioVars
  /\ UNCHANGED convVars
  /\ UNCHANGED gatewayVars

NextVad == \E b \in VadBuffers : DetectVoiceActivity(b, VAD_THRESHOLD)

SpecVad == Init /\ [][NextVad]_vars

\* The k-th 16-bit little-endian sample of a buffer, k counted from 1.
SampleAt(buf, k) ==
  LET u == buf[2 * k - 1] + 256 * buf[2 * k]
  IN  IF u >= 32768 THEN u - 65536 ELSE u

SampleCount(buf) == Len(buf) \div 2

RECURSIVE EnergyUpTo(_, _)
EnergyUpTo(buf, k) ==
  IF k = 0 THEN 0
  ELSE SampleAt(buf, k) * SampleAt(buf, k) + EnergyUpTo(buf, k - 1)

\* ------------------------------------------------------------------------
\* C17 (VAD threshold). detectVoiceActivity is false for a buffer shorter
\* than 2 bytes; for a longer one it is true exactly when the RMS of its
\* 16-bit samples is strictly above the threshold, that is, when the sum of
\* the squared samples exceeds threshold squared times the sample count.
\* ------------------------------------------------------------------------

VadThreshold ==
  ret.op = "detectVoiceActivity" =>
    LET buf == ret.audioBuffer
        n == SampleCount(buf)
    IN  ret.result <=>
          /\ Len(buf) >= 2
          /\ EnergyUpTo(buf, n) > ret.threshold * ret.threshold * n

\* ------------------------------------------------------------------------
\* C19 (no stale audio after a transcription failure). When the
\* transcribeAudio call that processAudioChunk makes for the utterance
\* transcript fails, on the endpointing path (the call's only engine call)
\* or on the wake-word path (the call after the probe), the session has no
\* buffered chunks once the call has returned.
\* ------------------------------------------------------------------------

UtteranceTranscriptionFailed ==
  \/ /\ ~Voiced(ret'.chunk)
     /\ Len(sttLog') = 1
     /\ ~sttLog'[1].reply.ok
  \/ /\ Voiced(ret'.chunk)
     /\ Len(sttLog') = 2
     /\ ~sttLog'[2].reply.ok

NoStaleAudio ==
  [][ \A s \in Sessions :
        (ChunkCall(s) /\ UtteranceTranscriptionFailed) =>
          Buffered(audioBuffers', s) = <<>>
    ]_vars

\* ------------------------------------------------------------------------
\* C20 (wake-probe failure degrades to not-detected). When an engine call
\* made inside the wake-word check of processAudioChunk fails, the call
\* does not throw and is not final, the submitted chunk is in the buffer
\* after the chunks heard before it, totalBytes counts it, and awake is
\* still false.
\* ------------------------------------------------------------------------

WakeCheckMade(s) ==
  /\ ChunkCall(s)
  /\ Voiced(ret'.chunk)
  /\ AlwaysListen(s) /\ ~Awake(s)
  /\ 4 * (SumLen(heard[s].chunks) + Len(ret'.chunk)) >= MIN_AUDIO_LENGTH_BYTES

WakeCheckFailed == \E i \in 1..Len(sttLog') : ~sttLog'[i].reply.ok

LeftAsNotDetected(s) ==
  /\ ~ret'.threw
  /\ ~ret'.isFinal
  /\ audioBuffers'[s] # Undefined
  /\ audioBuffers'[s].chunks = Append(heard[s].chunks, ret'.chunk)
  /\ audioBuffers'[s].totalBytes =
       SumLen(heard[s].chunks) + Len(ret'.chunk)
  /\ ~settingsOf(sessionSettings', s).awake

ProbeFailureDegrades ==
  [][ \A s \in Sessions :
        (WakeCheckMade(s) /\ WakeCheckFailed) => LeftAsNotDetected(s)
    ]_vars

\* ------------------------------------------------------------------------
\* Realtime Delivery Channel (ConversationalAiGateway). A handler is one
\* step, start to return; the delivery loop of streamAudioResponse is one
\* step per iteration, so that other handlers run between two chunks.
\* ------------------------------------------------------------------------

\* How many audio chunks one synthesized response may have.
MaxStreamChunks == 1

\* How many turns one client of the channel may add to its history.
MaxGatewayTurns == 1

\* How many turns a history may hold when calls overlap.
MaxAsyncTurns == 1

\* client.emit(event, payload)
Event(client, event) == [to |-> client, event |-> event]

ErrorEvent(client, message) ==
  [to |-> client, event |-> "error", message |-> message]

\* A JavaScript string, where a value of another type may arrive instead.
Str(text) == [string |-> text]

\* text.substring exists: only a string has it, a result envelope has not.
hasSubstring(text) == "string" \in DOMAIN text

\* session?.interrupted, as a condition: a property the object does not
\* have reads as undefined, which is falsy.
interruptedOf(session) ==
  IF "interrupted" \in DOMAIN session THEN session.interrupted ELSE FALSE

NoStream == Undefined

\* The loop of streamAudioResponse over a stream that has `remaining` more
\* chunks; complete tells that handleUserMessage awaits it.
Stream(remaining, complete) ==
  [remaining |-> remaining, complete |-> complete, interruptHandled |-> FALSE]

\* handleUserMessage, up to the point where it awaits the delivery loop:
\* the store's state, the events emitted, and whether the loop starts
\* (textToAudioStream throws a TypeError unless its text is a string, and
\* the handler then emits error).
handleUserMessage(cacheMap, index, client, message, t, aiResponseResp) ==
  LET out == processMessage(cacheMap, index, client, message, t,
                            aiResponseResp)
      response == out.resp
  IN  [cache |-> out.cache, calls |-> out.calls, resp |-> response,
       streams |-> hasSubstring(response),
       events |->
         << [to |-> client, event |-> "processing", status |-> "thinking"],
            [to |-> client, event |-> "ai-response", text |-> response],
            [to |-> client, event |-> "processing",
             status |-> "generating-audio"] >>
         \o IF hasSubstring(response) THEN <<>>
            ELSE <<ErrorEvent(client, "Failed to process message")>>]

Handled(op, client, resp) == [op |-> op, sessionId |-> client, resp |-> resp]

HandleConnection(client) ==
  LET out == initializeSession(cache, activeSessions, client, Undefined, now)
  IN  /\ ~sockets[client].connected
      /\ cache' = out.cache
      /\ activeSessions' = out.activeSessions
      /\ llmLog' = <<>>
      /\ appended' = [appended EXCEPT ![client] = <<>>]
      /\ sockets' = [sockets EXCEPT ![client].connected = TRUE]
      /\ emitted' = <<Event(client, "connected")>>
      /\ UNCHANGED inflight
      /\ ret' = Handled("handleConnection", client, out.resp)
      /\ UNCHANGED now
      /\ UNCHANGED audioVars

HandleDisconnect(client) ==
  LET out == endSession(cache, activeSessions, client)
  IN  /\ sockets[client].connected
      /\ cache' = out.cache
      /\ activeSessions' = out.activeSessions
      /\ llmLog' = <<>>
      /\ appended' = IF out.resp.success
                     THEN [appended EXCEPT ![client] = <<>>]
                     ELSE appended
      /\ audioBuffers' = deleteBuffer(audioBuffers, client)
      /\ heard' = [heard EXCEPT ![client] = NothingHeard]
      /\ sockets' = [sockets EXCEPT ![client].connected = FALSE]
      /\ emitted' = <<>>
      /\ UNCHANGED inflight
      /\ ret' = Handled("handleDisconnect", client, out.resp)
      /\ UNCHANGED <<now, sessionSettings, sttLog>>

\* data.context is Undefined when the event carries none.
HandleStartConversation(client, context) ==
  LET out == IF context = Undefined
             THEN StoreResult(cache, activeSessions, <<>>, Null)
             ELSE addContext(cache, activeSessions, client, context.value, now)
  IN  /\ sockets[client].connected
      /\ cache' = out.cache
      /\ activeSessions' = out.activeSessions
      /\ llmLog' = <<>>
      /\ emitted' = <<Event(client, "conversation-started")>>
      /\ UNCHANGED inflight
      /\ ret' = Handled("handleStartConversation", client, out.resp)
      /\ UNCHANGED <<now, appended, sockets>>
      /\ UNCHANGED audioVars

HandleAddContext(client, context) ==
  LET out == addContext(cache, activeSessions, client, context, now)
  IN  /\ sockets[client].connected
      /\ cache' = out.cache
      /\ activeSessions' = out.activeSessions
      /\ llmLog' = <<>>
      /\ emitted' = <<Event(client, "context-updated")>>
      /\ UNCHANGED inflight
      /\ ret' = Handled("handleAddContext", client, out.resp)
      /\ UNCHANGED <<now, appended, sockets>>
      /\ UNCHANGED audioVars

HandleClearHistory(client) ==
  LET out == clearHistory(cache, activeSessions, client, now)
  IN  /\ sockets[client].connected
      /\ cache' = out.cache
      /\ activeSessions' = out.activeSessions
      /\ llmLog' = <<>>
      /\ appended' = IF out.resp.success
                     THEN [appended EXCEPT ![client] = <<>>]
                     ELSE appended
      /\ emitted' = <<Event(client, "history-cleared")>>
      /\ UNCHANGED inflight
      /\ ret' = Handled("handleClearHistory", client, out.resp)
      /\ UNCHANGED <<now, sockets>>
      /\ UNCHANGED audioVars

HandleInterrupt(client) ==
  LET out == setInterrupted(cache, activeSessions, client, TRUE)
  IN  /\ sockets[client].connected
      /\ audioBuffers' = deleteBuffer(audioBuffers, client)
      /\ heard' = [heard EXCEPT ![client] = NothingHeard]
      /\ cache' = out.cache
      /\ activeSessions' = out.activeSessions
      /\ llmLog' = <<>>
      /\ sockets' =
           IF sockets[client].stream # NoStream /\ out.resp.success
           THEN [sockets EXCEPT ![client].stream.interruptHandled = TRUE]
           ELSE sockets
      /\ emitted' = <<Event(client, "interrupted")>>
      /\ UNCHANGED inflight
      /\ ret' = Handled("handleInterrupt", client, out.resp)
      /\ UNCHANGED <<now, appended, sessionSettings, sttLog>>

HandleTextMessage(client, text) ==
  /\ sockets[client].connected
  /\ Len(appended[client]) < 2 * MaxGatewayTurns
  /\ \E aiResponseResp \in generateResponse :
       LET out == handleUserMessage(cache, activeSessions, client, text, now,
                                    aiResponseResp)
       IN  /\ out.streams => sockets[client].stream = NoStream
           /\ cache' = out.cache
           /\ llmLog' = out.calls
           /\ appended' =
                IF out.resp.success
                THEN [appended EXCEPT ![client] =
                        @ \o <<userMsg(text), assistantMsg(aiResponseResp)>>]
                ELSE appended
           /\ sockets' =
                IF out.streams
                THEN [sockets EXCEPT ![client].stream =
                        Stream(MaxStreamChunks, TRUE)]
                ELSE sockets
           /\ emitted' = out.events
           /\ UNCHANGED inflight
           /\ ret' = Handled("handleTextMessage", client, out.resp)
           /\ UNCHANGED <<now, activeSessions>>
           /\ UNCHANGED audioVars

\* result.transcript, as a condition: undefined and '' are falsy.
hasTranscript(result) ==
  result.transcript # Undefined /\ result.transcript.value # <<>>

HandleAudioChunk(client, audioChunk) ==
  /\ sockets[client].connected
  /\ Len(appended[client]) < 2 * MaxGatewayTurns
  /\ \E probe \in ProbeReplies(client, audioChunk) :
     \E utter \in UtteranceReplies(client, audioChunk, probe) :
     \E aiResponseResp \in generateResponse :
       LET hasVoice == detectVoiceActivity(audioChunk, VAD_THRESHOLD)
           result == processAudioChunk(audioBuffers, sessionSettings, client,
                                       audioChunk, now, probe, utter)
           spoken == ~result.ret.threw /\ hasTranscript(result.ret)
                       /\ result.ret.isFinal
           out == IF spoken
                  THEN handleUserMessage(cache, activeSessions, client,
                                         result.ret.transcript.value, now,
                                         aiResponseResp)
                  ELSE [cache |-> cache, calls |-> <<>>, resp |-> Null,
                        streams |-> FALSE, events |-> <<>>]
       IN  /\ hasVoice =>
                bufferOf(audioBuffers, client, now).totalBytes
                  + Len(audioChunk) <= MaxBufferBytes
           /\ out.streams => sockets[client].stream = NoStream
           /\ audioBuffers' = result.audioBuffers
           /\ sessionSettings' = result.sessionSettings
           /\ sttLog' = result.calls
           /\ heard' = [heard EXCEPT ![client] =
                          IF result.audioBuffers[client] = Undefined
                          THEN NothingHeard
                          ELSE IF hasVoice
                          THEN [chunks |-> Append(@.chunks, audioChunk),
                                lastVoiceAt |-> now]
                          ELSE @]
           /\ cache' = out.cache
           /\ llmLog' = out.calls
           /\ appended' =
                IF spoken /\ out.resp.success
                THEN [appended EXCEPT ![client] =
                        @ \o <<userMsg(result.ret.transcript.value),
                               assistantMsg(aiResponseResp)>>]
                ELSE appended
           /\ sockets' =
                IF out.streams
                THEN [sockets EXCEPT ![client].stream =
                        Stream(MaxStreamChunks, TRUE)]
                ELSE sockets
           /\ emitted' =
                IF result.ret.threw
                THEN <<ErrorEvent(client, "Failed to process audio")>>
                ELSE IF hasTranscript(result.ret)
                THEN <<[to |-> client, event |-> "transcript",
                        text |-> result.ret.transcript.value,
                        isFinal |-> result.ret.isFinal]>> \o out.events
                ELSE <<>>
           /\ UNCHANGED inflight
           /\ ret' = [op |-> "handleAudioChunk", sessionId |-> client,
                      result |-> result.ret, resp |-> out.resp]
           /\ UNCHANGED <<now, activeSessions>>

\* streamAudioResponse(client, text) entered with a string, the type its
\* parameter declares: the delivery loop starts over a synthesized stream
\* of some number of chunks.
StreamAudioResponse(client, text) ==
  /\ sockets[client].connected
  /\ sockets[client].stream = NoStream
  /\ hasSubstring(text)
  /\ \E chunks \in 0..MaxStreamChunks :
       sockets' = [sockets EXCEPT ![client].stream = Stream(chunks, FALSE)]
  /\ emitted' = <<>>
  /\ llmLog' = <<>>
  /\ UNCHANGED inflight
  /\ ret' = [op |-> "streamAudioResponse", sessionId |-> client,
             text |-> text]
  /\ UNCHANGED <<now, cache, activeSessions, appended>>
  /\ UNCHANGED audioVars

\* What the handler emits once the loop is over.
afterStream(client, stream) ==
  IF stream.complete THEN <<Event(client, "response-complete")>> ELSE <<>>

\* One iteration of the loop: the stream is exhausted, or it yields a
\* chunk, the session is read, and the chunk is emitted unless the value
\* read has a truthy interrupted property.
StreamNext(client) ==
  LET stream == sockets[client].stream
      session == getSession(cache, client)
  IN  /\ stream # NoStream
      /\ IF stream.remaining = 0 \/ interruptedOf(session)
         THEN /\ sockets' = [sockets EXCEPT ![client].stream = NoStream]
              /\ emitted' = afterStream(client, stream)
         ELSE /\ sockets' = [sockets EXCEPT ![client].stream.remaining = @ - 1]
              /\ emitted' = <<Event(client, "audio-chunk")>>
      /\ llmLog' = <<>>
      /\ UNCHANGED inflight
      /\ ret' = [op |-> "streamAudioResponse", sessionId |-> client,
                 session |-> session]
      /\ UNCHANGED <<now, cache, activeSessions, appended>>
      /\ UNCHANGED audioVars

\* The synthesis engine throws while the loop waits for the next chunk.
StreamFails(client) ==
  LET stream == sockets[client].stream
  IN  /\ stream # NoStream
      /\ stream.remaining > 0
      /\ sockets' = [sockets EXCEPT ![client].stream = NoStream]
      /\ emitted' = IF stream.complete
                    THEN <<ErrorEvent(client, "Failed to process message")>>
                    ELSE <<>>
      /\ llmLog' = <<>>
      /\ UNCHANGED inflight
      /\ ret' = [op |-> "streamAudioResponse", sessionId |-> client,
                 threw |-> TRUE]
      /\ UNCHANGED <<now, cache, activeSessions, appended>>
      /\ UNCHANGED audioVars

GatewayChunks == {Loud6}
GatewayTexts == {"hi"}
GatewayContexts == {Undefined, Some("geo")}

\* One client using every event of the channel, a second one connecting
\* and disconnecting beside it, and the HTTP endpoints that end a session
\* and that switch always-listen mode, without which no chunk of the
\* channel is ever transcribed.
\* The clock stands still: the events arrive within one millisecond.
NextGateway ==
  \/ \E c \in Sessions : HandleConnection(c)
  \/ \E c \in Sessions : HandleDisconnect(c)
  \/ \E x \in GatewayContexts : HandleStartConversation(Speaker, x)
  \/ \E a \in GatewayChunks : HandleAudioChunk(Speaker, a)
  \/ \E t \in GatewayTexts : HandleTextMessage(Speaker, t)
  \/ HandleInterrupt(Speaker)
  \/ HandleAddContext(Speaker, "geo")
  \/ HandleClearHistory(Speaker)
  \/ StreamAudioResponse(Speaker, Str("ok"))
  \/ StreamNext(Speaker)
  \/ StreamFails(Speaker)
  \/ EndSession(Speaker)
  \/ SetAlwaysListening(Speaker, TRUE)

SpecGateway == Init /\ [][NextGateway]_vars

\* Events emitted by the step to one client.
EmittedTo(client, event) ==
  \E i \in 1..Len(emitted') :
    emitted'[i].to = client /\ emitted'[i].event = event

\* ------------------------------------------------------------------------
\* C12 (interrupt stops delivery). Once an interrupt event has been handled
\* for a client whose response is being streamed, and the interruption was
\* recorded in its session, the delivery loop emits no further audio-chunk
\* to that client for that response.
\* ------------------------------------------------------------------------

ConnectionLifecycle ==
  [][ \A c \in Sessions :
        /\ StoreCall("handleConnection", c) =>
             /\ cache'[c] # Undefined
             /\ FoundAfter(c).messages = <<>>
             /\ FoundAfter(c).context = ""
             /\ FoundAfter(c).interrupted = FALSE
             /\ includes(orEmpty(activeSessions'), c)
        /\ StoreCall("handleDisconnect", c) =>
             /\ cache'[c] = Undefined
             /\ ~includes(orEmpty(activeSessions'), c)
             /\ audioBuffers'[c] = Undefined
    ]_vars

\* The speaker, whose listen settings had been set, has disconnected and
\* its session was ended by that, while the other client stays connected,
\* stored and indexed.
ConnectionLifecycleWitness ==
  /\ ret.op = "handleDisconnect" /\ ret.sessionId = Speaker
  /\ ret.resp.success
  /\ ~sockets[Speaker].connected
  /\ ~Exists(Speaker)
  /\ audioBuffers[Speaker] = Undefined
  /\ sessionSettings[Speaker] # Undefined
  /\ sockets[Bystander].connected
  /\ Exists(Bystander)
  /\ activeSessions = Some(<<Bystander>>)

\* ------------------------------------------------------------------------
\* C16 (no silent drop). Handling a text-message, add-context,
\* clear-history or interrupt event emits at least one event to the
\* sending client; when the store operation it performs fails, an error
\* event is emitted and none of context-updated, history-cleared,
\* interrupted and response-complete.
\* ------------------------------------------------------------------------

AnsweredEvents == {"handleTextMessage", "handleAddContext",
                   "handleClearHistory", "handleInterrupt"}

SuccessAcks == {"context-updated", "history-cleared", "interrupted",
                "response-complete"}

NoSilentDrop ==
  [][ \A c \in Sessions :
        (ret'.op \in AnsweredEvents /\ ret'.sessionId = c) =>
          /\ \E i \in 1..Len(emitted') : emitted'[i].to = c
          /\ ~ret'.resp.success =>
               /\ EmittedTo(c, "error")
               /\ \A ack \in SuccessAcks : ~EmittedTo(c, ack)
    ]_vars

\* ------------------------------------------------------------------------
\* Calls that overlap. An async method runs without interruption from one
\* await to the next; while it waits for the Transcription Gateway, the
\* Completion Gateway or the cache, any other call may run. Each of the
\* actions below is one such stretch of a call: it starts when the call
\* is made, or when what the call awaited has resolved, and it ends at the
\* next await or at the return.
\* ------------------------------------------------------------------------

\* A call that waits at `pc`, with the locals it will resume with.
Awaiting(op, sessionId, pc, locals) ==
  [op |-> op, sessionId |-> sessionId, pc |-> pc, locals |-> locals]

\* What one stretch of call k did; result is Undefined while the call
\* has not returned.
Stretch(k, op, sessionId, step, result) ==
  [op |-> op, sessionId |-> sessionId, call |-> k, step |-> step,
   result |-> result]

Returned(sessionId, chunk, isFinal, transcript, threw) ==
  Some(ChunkResult(sessionId, chunk, isFinal, transcript, threw))

\* processAudioChunk from its start to the call of detectWakeWord, to the
\* call of transcribeAudio in the silence branch, or to its return.
ChunkBegin(k, sessionId, audioChunk) ==
  LET hasVoice == detectVoiceActivity(audioChunk, VAD_THRESHOLD)
      settings == settingsOf(sessionSettings, sessionId)
      found == bufferOf(audioBuffers, sessionId, now)
      buffer == IF hasVoice THEN pushChunk(found, audioChunk, now) ELSE found
      stored == [audioBuffers EXCEPT ![sessionId] = buffer]
      probing == hasVoice /\ wakeProbeDue(settings, buffer)
      boundary == ~hasVoice /\ utteranceBoundary(buffer, now)
      transcribing == boundary /\ ~suppressed(settings, now)
  IN  /\ inflight[k] = Idle
      /\ hasVoice => found.totalBytes + Len(audioChunk) <= MaxBufferBytes
      /\ audioBuffers' = IF boundary
                         THEN deleteBuffer(audioBuffers, sessionId)
                         ELSE stored
      /\ heard' = [heard EXCEPT ![sessionId] =
                     IF boundary THEN NothingHeard
                     ELSE IF hasVoice
                     THEN [chunks |-> Append(@.chunks, audioChunk),
                           lastVoiceAt |-> now]
                     ELSE @]
      /\ inflight' =
           [inflight EXCEPT ![k] =
              IF probing
              THEN Awaiting("processAudioChunk", sessionId, "detectWakeWord",
                            [chunk |-> audioChunk,
                             audio |-> Concat(buffer.chunks)])
              ELSE IF transcribing
              THEN Awaiting("processAudioChunk", sessionId, "transcribeAudio",
                            [chunk |-> audioChunk,
                             audio |-> Concat(buffer.chunks),
                             stored |-> sessionSettings[sessionId] # Undefined])
              ELSE Idle]
      /\ sttLog' = <<>>
      /\ ret' = Stretch(k, "processAudioChunk", sessionId, "begin",
                        IF probing \/ transcribing THEN Undefined
                        ELSE Returned(sessionId, audioChunk, FALSE,
                                      Undefined, FALSE))
      /\ UNCHANGED <<now, sessionSettings>>
      /\ UNCHANGED convVars
      /\ UNCHANGED gatewayVars

\* detectWakeWord has resolved or thrown: on a detection the session is
\* woken and transcribeAudio is called; otherwise the call returns.
ProbeReturns(k, probe) ==
  LET call == inflight[k]
      sessionId == call.sessionId
      wakeDetected == detectWakeWord(probe)
  IN  /\ call # Idle
      /\ call.pc = "detectWakeWord"
      /\ sessionSettings' =
           IF wakeDetected
           THEN [sessionSettings EXCEPT ![sessionId] =
                   [settingsOf(sessionSettings, sessionId)
                      EXCEPT !.awake = TRUE]]
           ELSE sessionSettings
      /\ inflight' =
           [inflight EXCEPT ![k] =
              IF wakeDetected
              THEN [call EXCEPT !.pc = "wakeTranscribe"]
              ELSE Idle]
      /\ sttLog' = <<SttCall(call.locals.audio, probe)>>
      /\ ret' = Stretch(k, "processAudioChunk", sessionId, "detectWakeWord",
                        IF wakeDetected THEN Undefined
                        ELSE Returned(sessionId, call.locals.chunk, FALSE,
                                      Undefined, FALSE))
      /\ UNCHANGED <<now, audioBuffers, heard>>
      /\ UNCHANGED convVars
      /\ UNCHANGED gatewayVars

\* transcribeAudio(candidate) has resolved, and the buffer is deleted, or
\* it has thrown into the catch of the wake-word check.
WakeTranscribeReturns(k, utter) ==
  LET call == inflight[k]
      sessionId == call.sessionId
  IN  /\ call # Idle
      /\ call.pc = "wakeTranscribe"
      /\ audioBuffers' = IF utter.ok
                         THEN deleteBuffer(audioBuffers, sessionId)
                         ELSE audioBuffers
      /\ heard' = IF utter.ok
                  THEN [heard EXCEPT ![sessionId] = NothingHeard]
                  ELSE heard
      /\ inflight' = [inflight EXCEPT ![k] = Idle]
      /\ sttLog' = <<SttCall(call.locals.audio, utter)>>
      /\ ret' = Stretch(k, "processAudioChunk", sessionId, "wakeTranscribe",
                        IF utter.ok
                        THEN Returned(sessionId, call.locals.chunk, TRUE,
                                      Some(utter.text), FALSE)
                        ELSE Returned(sessionId, call.locals.chunk, FALSE,
                                      Undefined, FALSE))
      /\ UNCHANGED <<now, sessionSettings>>
      /\ UNCHANGED convVars
      /\ UNCHANGED gatewayVars

\* transcribeAudio(completeAudio) has resolved or thrown. currentSettings
\* is the object of the map when the map had one at line 103, and then
\* its awake flag is read as it is now.
UtteranceReturns(k, utter) ==
  LET call == inflight[k]
      sessionId == call.sessionId
  IN  /\ call # Idle
      /\ call.pc = "transcribeAudio"
      /\ sessionSettings' =
           IF utter.ok /\ call.locals.stored
           THEN clearAwake(sessionSettings, sessionId,
                           settingsOf(sessionSettings, sessionId))
           ELSE sessionSettings
      /\ inflight' = [inflight EXCEPT ![k] = Idle]
      /\ sttLog' = <<SttCall(call.locals.audio, utter)>>
      /\ ret' = Stretch(k, "processAudioChunk", sessionId, "transcribeAudio",
                        IF utter.ok
                        THEN Returned(sessionId, call.locals.chunk, TRUE,
                                      Some(utter.text), FALSE)
                        ELSE Returned(sessionId, call.locals.chunk, FALSE,
                                      Undefined, TRUE))
      /\ UNCHANGED <<now, audioBuffers, heard>>
      /\ UNCHANGED convVars
      /\ UNCHANGED gatewayVars

\* The operations of the store that read a session, change it and write
\* it back, with the argument each one takes.
StoreCalls ==
  { [op |-> "addContext", arg |-> "geo"],
    [op |-> "processMessage", arg |-> "a"],
    [op |-> "setInterrupted", arg |-> TRUE],
    [op |-> "clearHistory", arg |-> Null] }

\* The session as the operation has changed it when it reaches its next
\* await: the call of generateResponse for processMessage, the write to
\* the cache for the others.
changed(request, session, t) ==
  IF request.op = "addContext"
  THEN [session EXCEPT !.context = request.arg, !.lastActivityAt = t]
  ELSE IF request.op = "processMessage"
  THEN [session EXCEPT
          !.messages = pushMessage(@, userMsg(request.arg)),
          !.lastActivityAt = t,
          !.interrupted = FALSE]
  ELSE IF request.op = "setInterrupted"
  THEN [session EXCEPT !.interrupted = request.arg]
  ELSE [session EXCEPT !.messages = <<>>, !.lastActivityAt = t]

\* What the operation returns after its write.
written(request, sessionId, session, aiResponseResp) ==
  IF request.op = "addContext"
  THEN createAppResponse(TRUE, "Context added", session, 200)
  ELSE IF request.op = "processMessage"
  THEN createAppResponse(TRUE, "Message processed",
         [response |-> aiResponseResp.data, sessionId |-> sessionId], 200)
  ELSE IF request.op = "setInterrupted"
  THEN createAppResponse(TRUE, "Session interrupted flag updated",
                         session, 200)
  ELSE createAppResponse(TRUE, "History cleared", session, 200)

\* getSession has resolved: the call returns its NotFound result, or
\* changes the session it was given and goes on to its next await.
StoreBegin(k, sessionId, request) ==
  LET rawResp == getSession(cache, sessionId)
  IN  /\ inflight[k] = Idle
      /\ (request.op = "processMessage" /\ rawResp.success) =>
           Len(rawResp.data.messages) < 2 * MaxAsyncTurns
      /\ inflight' =
           [inflight EXCEPT ![k] =
              IF ~rawResp.success THEN Idle
              ELSE Awaiting(request.op, sessionId,
                            IF request.op = "processMessage"
                            THEN "generateResponse" ELSE "set",
                            [request |-> request,
                             session |-> changed(request, rawResp.data, now),
                             reply |-> Null,
                             interruptedMeanwhile |-> FALSE])]
      /\ llmLog' = <<>>
      /\ ret' = Stretch(k, request.op, sessionId, "getSession",
                        IF rawResp.success THEN Undefined ELSE Some(rawResp))
      /\ UNCHANGED <<now, cache, activeSessions, appended>>
      /\ UNCHANGED audioVars
      /\ UNCHANGED gatewayVars

\* generateResponse has resolved: the reply is pushed, the history cut.
GenerateResponseReturns(k, aiResponseResp) ==
  LET call == inflight[k]
      session == call.locals.session
      answered == pushMessage(session.messages, assistantMsg(aiResponseResp))
  IN  /\ call # Idle
      /\ call.pc = "generateResponse"
      /\ inflight' =
           [inflight EXCEPT ![k] =
              [call EXCEPT
                 !.pc = "set",
                 !.locals.session.messages = trimHistory(answered),
                 !.locals.reply = aiResponseResp]]
      /\ llmLog' = <<LlmCall(session.messages, session.context,
                             aiResponseResp)>>
      /\ ret' = Stretch(k, call.op, call.sessionId, "generateResponse",
                        Undefined)
      /\ UNCHANGED <<now, cache, activeSessions, appended>>
      /\ UNCHANGED audioVars
      /\ UNCHANGED gatewayVars

\* History kept for the calls under way: a processMessage call that is
\* waiting for generateResponse has seen setInterrupted(sessionId, true)
\* for its session complete.
noteInterrupt(other, call) ==
  IF /\ call.op = "setInterrupted"
     /\ call.locals.request.arg = TRUE
     /\ other # Idle
     /\ other.op = "processMessage"
     /\ other.sessionId = call.sessionId
     /\ other.pc = "generateResponse"
  THEN [other EXCEPT !.locals.interruptedMeanwhile = TRUE]
  ELSE other

\* cacheManager.set(sessionKey(sessionId), session) has resolved. The
\* history of appends is kept for calls made one at a time only: writes
\* of overlapping calls replace one another.
StoreSet(k) ==
  LET call == inflight[k]
      sessionId == call.sessionId
      request == call.locals.request
      session == call.locals.session
  IN  /\ call # Idle
      /\ call.pc = "set"
      /\ cache' = cacheSet(cache, sessionId, session)
      /\ UNCHANGED appended
      /\ inflight' = [j \in Calls |->
                       IF j = k THEN Idle ELSE noteInterrupt(inflight[j], call)]
      /\ llmLog' = <<>>
      /\ ret' = Stretch(k, call.op, sessionId, "set",
                        Some(written(request, sessionId, session,
                                     call.locals.reply)))
      /\ UNCHANGED <<now, activeSessions>>
      /\ UNCHANGED audioVars
      /\ UNCHANGED gatewayVars

\* initializeSession from its start: the session is built and written to
\* the cache; the call goes on to addActiveSessionId, which reads the list.
InitializeBegin(k, sessionId, userId) ==
  LET session == newSession(sessionId, userId, now)
  IN  /\ inflight[k] = Idle
      /\ cache' = cacheSet(cache, sessionId, session)
      /\ inflight' =
           [inflight EXCEPT ![k] =
              Awaiting("initializeSession", sessionId, "getIndex",
                       [session |-> session])]
      /\ llmLog' = <<>>
      /\ ret' = Stretch(k, "initializeSession", sessionId, "set", Undefined)
      /\ UNCHANGED <<now, activeSessions, appended>>
      /\ UNCHANGED audioVars
      /\ UNCHANGED gatewayVars

\* endSession from its start: getSession has resolved, and the call
\* returns its NotFound result or goes on to delete the cache entry.
EndBegin(k, sessionId) ==
  LET rawResp == getSession(cache, sessionId)
  IN  /\ inflight[k] = Idle
      /\ inflight' =
           [inflight EXCEPT ![k] =
              IF ~rawResp.success THEN Idle
              ELSE Awaiting("endSession", sessionId, "del",
                            [session |-> rawResp.data])]
      /\ llmLog' = <<>>
      /\ ret' = Stretch(k, "endSession", sessionId, "getSession",
                        IF rawResp.success THEN Undefined ELSE Some(rawResp))
      /\ UNCHANGED <<now, cache, activeSessions, appended>>
      /\ UNCHANGED audioVars
      /\ UNCHANGED gatewayVars

\* cacheManager.del(sessionKey(sessionId)) has resolved; the call goes on
\* to removeActiveSessionId, which reads the list.
EndDel(k) ==
  LET call == inflight[k]
  IN  /\ call # Idle
      /\ call.pc = "del"
      /\ cache' = cacheDel(cache, call.sessionId)
      /\ inflight' = [inflight EXCEPT ![k].pc = "getIndex"]
      /\ llmLog' = <<>>
      /\ ret' = Stretch(k, call.op, call.sessionId, "del", Undefined)
      /\ UNCHANGED <<now, activeSessions, appended>>
      /\ UNCHANGED audioVars
      /\ UNCHANGED gatewayVars

\* What initializeSession and endSession return.
indexed(call) ==
  IF call.op = "initializeSession"
  THEN createAppResponse(TRUE, "Session created", call.locals.session, 201)
  ELSE createAppResponse(TRUE, "Session ended", Null, 200)

\* The list as addActiveSessionId or removeActiveSessionId changes it, and
\* whether it is written back.
listChange(call, list) ==
  IF call.op = "initializeSession"
  THEN [write |-> ~includes(list, call.sessionId),
        list |-> Append(list, call.sessionId)]
  ELSE [write |-> includes(list, call.sessionId),
        list |-> IF includes(list, call.sessionId)
                 THEN splice(list, indexOf(list, call.sessionId))
                 ELSE list]

\* cacheManager.get(activeSessionsKey()) has resolved: the id is pushed or
\* spliced out and the list is written back, or there is nothing to write
\* and the call returns.
IndexRead(k) ==
  LET call == inflight[k]
      change == listChange(call, orEmpty(activeSessions))
  IN  /\ call # Idle
      /\ call.pc = "getIndex"
      /\ inflight' =
           [inflight EXCEPT ![k] =
              IF change.write
              THEN [call EXCEPT !.pc = "setIndex",
                                !.locals = [session |-> call.locals.session,
                                            list |-> change.list]]
              ELSE Idle]
      /\ llmLog' = <<>>
      /\ ret' = Stretch(k, call.op, call.sessionId, "getIndex",
                        IF change.write THEN Undefined
                        ELSE Some(indexed(call)))
      /\ UNCHANGED <<now, cache, activeSessions, appended>>
      /\ UNCHANGED audioVars
      /\ UNCHANGED gatewayVars

\* cacheManager.set(activeSessionsKey(), list) has resolved.
IndexWrite(k) ==
  LET call == inflight[k]
  IN  /\ call # Idle
      /\ call.pc = "setIndex"
      /\ activeSessions' = Some(call.locals.list)
      /\ inflight' = [inflight EXCEPT ![k] = Idle]
      /\ llmLog' = <<>>
      /\ ret' = Stretch(k, call.op, call.sessionId, "setIndex",
                        Some(indexed(call)))
      /\ UNCHANGED <<now, cache, appended>>
      /\ UNCHANGED audioVars
      /\ UNCHANGED gatewayVars

AsyncChunks == {Loud6, Silence}

\* The replies of the Transcription Gateway: a failure, one word, two words.
AsyncReplies == {SttFailure, SttText(<<"H">>), SttText(<<"h", " ", "e">>)}

\* The clock moves on by the length of the silence that ends an utterance.
Pause ==
  /\ now + SILENCE_THRESHOLD_MS <= MaxTime
  /\ now' = now + SILENCE_THRESHOLD_MS
  /\ ret' = NoCall
  /\ sttLog' = <<>>
  /\ llmLog' = <<>>
  /\ emitted' = <<>>
  /\ UNCHANGED <<audioBuffers, sessionSettings, heard>>
  /\ UNCHANGED <<cache, activeSessions, appended, sockets, inflight>>

\* A call that starts takes the first free slot.
Free(k) == inflight[k] = Idle /\ (k = "k2" => inflight["k1"] # Idle)

\* The other session as three calls made one after the other leave it:
\* initializeSession, tapToListen for 3 ms, and one voice chunk.
BystanderSession ==
  initializeSession([s \in Sessions |-> Undefined], Undefined, Bystander,
                    NoUser, 1)

BystanderSettings ==
  tapToListen([s \in Sessions |-> Undefined], Bystander, 3, 1)

BystanderBuffer ==
  processAudioChunk([s \in Sessions |-> Undefined], BystanderSettings,
                    Bystander, Loud6, 1, SttFailure, SttFailure).audioBuffers

InitAsync ==
  /\ now = 1
  /\ audioBuffers = BystanderBuffer
  /\ sessionSettings = BystanderSettings
  /\ ret = NoCall
  /\ sttLog = <<>>
  /\ heard = [s \in Sessions |->
                IF s = Bystander
                THEN [chunks |-> <<Loud6>>, lastVoiceAt |-> 1]
                ELSE NothingHeard]
  /\ cache = BystanderSession.cache
  /\ activeSessions = BystanderSession.activeSessions
  /\ llmLog = <<>>
  /\ appended = [s \in Sessions |-> <<>>]
  /\ sockets = [s \in Sessions |-> [connected |-> FALSE, stream |-> Undefined]]
  /\ emitted = <<>>
  /\ inflight = [k \in Calls |-> Idle]

\* AudioProcessingService and ConversationService keep separate state and
\* neither calls the other, so a step of one commutes with every step of
\* the other: the calls of each are explored with the other at rest.
AudioAtRest ==
  /\ now = 1
  /\ audioBuffers = BystanderBuffer
  /\ sessionSettings = BystanderSettings
  /\ \A k \in Calls : inflight[k] = Idle \/ inflight[k].op # "processAudioChunk"

StoreAtRest ==
  /\ cache = BystanderSession.cache
  /\ activeSessions = BystanderSession.activeSessions
  /\ \A k \in Calls : inflight[k] = Idle \/ inflight[k].op = "processAudioChunk"

\* Up to two calls at a time, of any of the operations that await
\* something; the settings and buffer operations, which await nothing,
\* run whole.
NextAsync ==
  \/ StoreAtRest /\ Pause
  \/ \E k \in Calls, a \in AsyncChunks :
       StoreAtRest /\ Free(k) /\ ChunkBegin(k, Speaker, a)
  \/ \E k \in Calls : StoreAtRest /\ Free(k) /\ ChunkBegin(k, Bystander, Loud6)
  \/ \E k \in Calls, probe \in AsyncReplies : ProbeReturns(k, probe)
  \/ \E k \in Calls, utter \in AsyncReplies : WakeTranscribeReturns(k, utter)
  \/ \E k \in Calls, utter \in AsyncReplies : UtteranceReturns(k, utter)
  \/ \E enabled \in BOOLEAN :
       StoreAtRest /\ SetAlwaysListening(Speaker, enabled)
  \/ StoreAtRest /\ TapToListen(Speaker, 1)
  \/ StoreAtRest /\ StopAudioPlayback(Speaker)
  \/ StoreAtRest /\ Cleanup(Speaker)
  \/ \E k \in Calls :
       AudioAtRest /\ Free(k) /\ InitializeBegin(k, Speaker, NoUser)
  \/ \E k \in Calls : AudioAtRest /\ Free(k) /\ EndBegin(k, Speaker)
  \/ \E k \in Calls : EndDel(k)
  \/ \E k \in Calls : IndexRead(k)
  \/ \E k \in Calls : IndexWrite(k)
  \/ \E k \in Calls, request \in StoreCalls :
       AudioAtRest /\ Free(k) /\ StoreBegin(k, Speaker, request)
  \/ \E k \in Calls, aiResponseResp \in generateResponse :
       GenerateResponseReturns(k, aiResponseResp)
  \/ \E k \in Calls : StoreSet(k)

SpecAsync == InitAsync /\ [][NextAsync]_vars

\* Call k is a processAudioChunk call for session s that has called the
\* Transcription Gateway (for the wake-word probe or for an utterance)
\* and has not resumed.
AwaitingTranscription(k, s) ==
  /\ inflight[k] # Idle
  /\ inflight[k].op = "processAudioChunk"
  /\ inflight[k].sessionId = s

\* The stretches of processAudioChunk that use the session's buffer: the
\* first reads it, and appends to it or deletes it; the one that follows
\* the wake-word transcription deletes it.
BufferSteps == {"begin", "wakeTranscribe"}

\* ------------------------------------------------------------------------
\* C13 (per-session serialization). While a processAudioChunk call for a
\* session waits for the Transcription Gateway, no other processAudioChunk
\* call for that session appends to, reads or clears the session's buffer.
\* ------------------------------------------------------------------------

PerSessionSerialization ==
  [][ \A k \in Calls : \A s \in Sessions :
        AwaitingTranscription(k, s) =>
          ~ /\ ret'.op = "processAudioChunk"
            /\ ret'.sessionId = s
            /\ ret'.call # k
            /\ ret'.step \in BufferSteps
    ]_vars

\* The operations that take a sessionId and change what is kept under it.
ScopedOps == {"processAudioChunk", "setAlwaysListening", "tapToListen",
              "cleanup", "stopAudioPlayback", "addContext",
              "processMessage", "setInterrupted", "clearHistory"}

\* ------------------------------------------------------------------------
\* C18 (per-session isolation). Whatever calls overlap, no stretch of an
\* operation invoked with one sessionId changes the audio buffer, the
\* listen settings or the stored conversation session of another.
\* ------------------------------------------------------------------------

SessionIsolation ==
  [][ \A a \in Sessions :
        (ret'.op \in ScopedOps /\ ret'.sessionId = a) =>
          \A b \in Sessions \ {a} :
            /\ audioBuffers'[b] = audioBuffers[b]
            /\ sessionSettings'[b] = sessionSettings[b]
            /\ cache'[b] = cache[b]
    ]_vars

\* Two processMessage calls for the speaker overlap, one of them has just
\* written the speaker's session, and the other session still has its
\* buffer, its settings and its stored session.
SessionIsolationWitness ==
  /\ ret.op = "processMessage" /\ ret.sessionId = Speaker
  /\ ret.step = "set"
  /\ \E k \in Calls : /\ inflight[k] # Idle
                      /\ inflight[k].op = "processMessage"
                      /\ inflight[k].sessionId = Speaker
  /\ Len(cache[Speaker].messages) = 2
  /\ audioBuffers[Bystander] = BystanderBuffer[Bystander]
  /\ sessionSettings[Bystander] = BystanderSettings[Bystander]
  /\ cache[Bystander] = BystanderSession.cache[Bystander]

\* The operations that change a stored session.
MutatingOps == {"addContext", "processMessage", "setInterrupted",
                "clearHistory"}

\* ------------------------------------------------------------------------
\* C21 (lastActivityAt tracks every mutation). When addContext,
\* processMessage, setInterrupted or clearHistory changes a stored session,
\* the session it leaves has lastActivityAt equal to the time of the call
\* and the createdAt it had.
\* ------------------------------------------------------------------------

LastActivityTracksMutation ==
  [][ \A s \in Sessions :
        (ret'.op \in MutatingOps /\ ret'.sessionId = s /\ Exists(s)
           /\ cache'[s] # cache[s]) =>
          /\ FoundAfter(s).lastActivityAt = now
          /\ FoundAfter(s).createdAt = FoundBefore(s).createdAt
    ]_vars

\* ------------------------------------------------------------------------
\* C22 (interrupted-flag lifecycle). A session is created with interrupted
\* false; the flag of a stored session turns true only in a
\* setInterrupted(sessionId, true) call; addContext and clearHistory leave
\* it as it was; the session processMessage persists has it false.
\* ------------------------------------------------------------------------

InterruptedLifecycle ==
  [][ \A s \in Sessions :
        /\ StoreCall("initializeSession", s) => ~FoundAfter(s).interrupted
        /\ (Exists(s) /\ cache'[s] # Undefined /\ FoundAfter(s).interrupted
              /\ ~FoundBefore(s).interrupted) =>
             /\ StoreCall("setInterrupted", s)
             /\ ret'.interrupted
        /\ (Exists(s) /\ (StoreCall("addContext", s)
                            \/ StoreCall("clearHistory", s))) =>
             FoundAfter(s).interrupted = FoundBefore(s).interrupted
        /\ (Exists(s) /\ StoreCall("processMessage", s)) =>
             ~FoundAfter(s).interrupted
    ]_vars

\* A first message has been processed, some time after its creation, for
\* a session whose context was set: the session persisted has the flag
\* down.
InterruptedLifecycleWitness ==
  /\ ret.op = "processMessage" /\ ret.sessionId = Speaker
  /\ ret.resp.success
  /\ Exists(Speaker)
  /\ ~cache[Speaker].interrupted
  /\ cache[Speaker].context = "math"
  /\ Len(cache[Speaker].messages) = 2
  /\ Len(appended[Speaker]) = 2
  /\ cache[Speaker].lastActivityAt.iso > cache[Speaker].createdAt.iso

\* ------------------------------------------------------------------------
\* C24 (context is replaced). A session is created with the empty context;
\* a successful addContext leaves the context equal to its argument and
\* the messages and the interrupted flag as they were; processMessage,
\* setInterrupted and clearHistory leave the context as it was, and
\* clearHistory leaves no messages and the active index as it was, with
\* the session's id in it.
\* ------------------------------------------------------------------------

ContextReplaced ==
  [][ \A s \in Sessions :
        /\ StoreCall("initializeSession", s) => FoundAfter(s).context = ""
        /\ (Exists(s) /\ StoreCall("addContext", s)) =>
             /\ ret'.resp.success
             /\ FoundAfter(s).context = ret'.context
             /\ FoundAfter(s).messages = FoundBefore(s).messages
             /\ FoundAfter(s).interrupted = FoundBefore(s).interrupted
        /\ (Exists(s) /\ (StoreCall("processMessage", s)
                            \/ StoreCall("setInterrupted", s)
                            \/ StoreCall("clearHistory", s))) =>
             /\ cache'[s] # Undefined
             /\ FoundAfter(s).context = FoundBefore(s).context
        /\ (Exists(s) /\ StoreCall("clearHistory", s)) =>
             /\ FoundAfter(s).messages = <<>>
             /\ activeSessions' = activeSessions
             /\ includes(orEmpty(activeSessions'), s)
    ]_vars

\* The history of a session with a context and two messages has just been
\* cleared: the context is still there, after having replaced another.
ContextReplacedWitness ==
  /\ ret.op = "clearHistory" /\ ret.sessionId = Speaker
  /\ ret.resp.success
  /\ cache[Speaker].context = "geo"
  /\ cache[Speaker].messages = <<>>
  /\ cache[Speaker].interrupted
  /\ activeSessions = Some(<<Bystander, Speaker>>)

\* The settings of session s before and after the step.
SettingsBefore(s) == settingsOf(sessionSettings, s)
SettingsAfter(s) == settingsOf(sessionSettings', s)

\* ------------------------------------------------------------------------
\* C23 (what the listen-mode operations change). setAlwaysListening sets
\* alwaysListen to its argument, clears awake when the argument is false
\* and leaves awake as it was when it is true; tapToListen leaves both
\* flags as they were; setAlwaysListening leaves the tap expiry as it was;
\* both leave the session's audio buffer as it was.
\* ------------------------------------------------------------------------

ListenModeFrame ==
  [][ \A s \in Sessions :
        /\ (ret'.op = "setAlwaysListening" /\ ret'.sessionId = s) =>
             /\ SettingsAfter(s).alwaysListen = ret'.enabled
             /\ SettingsAfter(s).awake =
                  (ret'.enabled /\ SettingsBefore(s).awake)
             /\ SettingsAfter(s).tapToListenExpiresAt =
                  SettingsBefore(s).tapToListenExpiresAt
             /\ audioBuffers'[s] = audioBuffers[s]
        /\ (ret'.op = "tapToListen" /\ ret'.sessionId = s) =>
             /\ SettingsAfter(s).alwaysListen = SettingsBefore(s).alwaysListen
             /\ SettingsAfter(s).awake = SettingsBefore(s).awake
             /\ audioBuffers'[s] = audioBuffers[s]
    ]_vars

\* Always-listen mode has just been switched on again for a session that
\* is awake, has a tap window open and has audio buffered.
ListenModeFrameWitness ==
  /\ ret.op = "setAlwaysListening" /\ ret.sessionId = Speaker
  /\ ret.enabled
  /\ sessionSettings[Speaker] # Undefined
  /\ sessionSettings[Speaker].awake
  /\ sessionSettings[Speaker].tapToListenExpiresAt > now
  /\ audioBuffers[Speaker] # Undefined
  /\ audioBuffers[Speaker].totalBytes > 0

\* ------------------------------------------------------------------------
\* Listing the sessions (getActiveSessions, getUserSessions). The cache is
\* configured with a time to live, so an entry may be gone while the index
\* still lists its id.
\* ------------------------------------------------------------------------

\* String(value): undefined reads "undefined", a string reads itself.
String(value) == IF value = Undefined THEN "undefined" ELSE value.value

\* ids.map(id => getSession(id)), then .map(r => r.data).filter(Boolean)
getActiveSessions(cacheMap, index) ==
  LET ids == orEmpty(index)
      sessionResponses == [i \in 1..Len(ids) |-> getSession(cacheMap, ids[i])]
      datas == [i \in 1..Len(ids) |-> sessionResponses[i].data]
      sessions == SelectSeq(datas, LAMBDA data : data # Null)
  IN  createAppResponse(TRUE, "Active sessions retrieved", sessions, 200)

\* all.filter(session => String(session.userId) === String(userId))
getUserSessions(cacheMap, index, userId) ==
  LET allResp == getActiveSessions(cacheMap, index)
      filtered == SelectSeq(allResp.data,
                    LAMBDA session : String(session.userId) = String(userId))
  IN  IF ~allResp.success THEN allResp
      ELSE createAppResponse(TRUE, "User sessions retrieved", filtered, 200)

\* The user ids a listing is asked for: the path parameter, any string.
ListedUsers == {Some("u1"), Some("u2"), Some("undefined")}

GetActiveSessions ==
  /\ UNCHANGED inflight
  /\ ret' = [op |-> "getActiveSessions",
             resp |-> getActiveSessions(cache, activeSessions)]
  /\ llmLog' = <<>>
  /\ UNCHANGED <<now, cache, activeSessions, appended>>
  /\ UNCHANGED audioVars
  /\ UNCHANGED gatewayVars

GetUserSessions(userId) ==
  /\ UNCHANGED inflight
  /\ ret' = [op |-> "getUserSessions", userId |-> userId,
             resp |-> getUserSessions(cache, activeSessions, userId)]
  /\ llmLog' = <<>>
  /\ UNCHANGED <<now, cache, activeSessions, appended>>
  /\ UNCHANGED audioVars
  /\ UNCHANGED gatewayVars

\* The time to live of a session's cache entry has run out.
Expire(sessionId) ==
  /\ cache[sessionId] # Undefined
  /\ cache' = cacheDel(cache, sessionId)
  /\ UNCHANGED inflight
  /\ ret' = [op |-> "expire", sessionId |-> sessionId]
  /\ llmLog' = <<>>
  /\ UNCHANGED <<now, activeSessions, appended>>
  /\ UNCHANGED audioVars
  /\ UNCHANGED gatewayVars

\* Sessions of a known user and of nobody (as the realtime channel makes
\* them) are created, changed, ended and expired, and listed in between.
NextList ==
  \/ Tick
  \/ \E u \in {NoUser, KnownUser} : InitializeSession(Speaker, u)
  \/ InitializeSession(Bystander, KnownUser)
  \/ \E c \in Contexts : AddContext(Speaker, c)
  \/ \E c \in Sessions : EndSession(c)
  \/ \E c \in Sessions : Expire(c)
  \/ GetActiveSessions
  \/ \E u \in ListedUsers : GetUserSessions(u)

SpecList == Init /\ [][NextList]_vars

\* The sessions stored under the ids of the active index.
IndexedAndStored ==
  { reviveSession(cache[s]) :
      s \in {c \in Sessions : includes(orEmpty(activeSessions), c)
                                /\ cache[c] # Undefined} }

Listed(resp) == {resp.data[i] : i \in 1..Len(resp.data)}

\* ------------------------------------------------------------------------
\* C25 (listing skips missing sessions). getActiveSessions succeeds and
\* returns the sessions stored under the ids of the active index, each
\* once, leaving out the ids that have no session; getUserSessions
\* succeeds and returns those of them whose userId is its argument.
\* ------------------------------------------------------------------------

ListingSkipsMissing ==
  [][ /\ ret'.op = "getActiveSessions" =>
           /\ ret'.resp.success
           /\ Listed(ret'.resp) = IndexedAndStored
           /\ Len(ret'.resp.data) = Cardinality(IndexedAndStored)
      /\ ret'.op = "getUserSessions" =>
           /\ ret'.resp.success
           /\ Listed(ret'.resp) =
                {session \in IndexedAndStored : session.userId = ret'.userId}
    ]_vars

\* ------------------------------------------------------------------------
\* C26 (an ended session is not resurrected). Whatever calls overlap, a
\* session is stored under an id that has none only by initializeSession:
\* no stretch of addContext, processMessage, setInterrupted or clearHistory
\* that read the session before endSession deleted it stores it again
\* after endSession has returned.
\* ------------------------------------------------------------------------

Ending(s) ==
  \E k \in Calls : /\ inflight[k] # Idle
                   /\ inflight[k].op = "endSession"
                   /\ inflight[k].sessionId = s

NoResurrection ==
  [][ \A s \in Sessions :
        (~Exists(s) /\ ~Ending(s) /\ cache'[s] # Undefined) =>
          (ret'.op = "initializeSession" /\ ret'.sessionId = s)
    ]_vars

\* ------------------------------------------------------------------------
\* C30 (awake implies always-listen). In every state, calls under way or
\* not, a session whose settings say awake has alwaysListen enabled.
\* ------------------------------------------------------------------------

AwakeImpliesAlwaysListen ==
  \A s \in Sessions :
    settingsOf(sessionSettings, s).awake =>
      settingsOf(sessionSettings, s).alwaysListen

\* The step just taken is a stretch of processAudioChunk for s that
\* deleted the buffer of s.
BufferDeleted(s) ==
  /\ ret'.op = "processAudioChunk"
  /\ ret'.sessionId = s
  /\ audioBuffers[s] # Undefined
  /\ audioBuffers'[s] = Undefined

\* ------------------------------------------------------------------------
\* C27 (chunk conservation). Whatever processAudioChunk calls overlap,
\* a stretch of processAudioChunk that deletes a session's buffer deletes
\* exactly the chunks whose audio it handed to the utterance boundary:
\* the audio it sent to transcription for the final result it returns
\* (after a wake-word detection), or the audio it is about to send (at
\* an utterance boundary by silence).
\* ------------------------------------------------------------------------

ChunkConservation ==
  [][ \A s \in Sessions :
        BufferDeleted(s) =>
          /\ ret'.step = "wakeTranscribe" =>
               Concat(audioBuffers[s].chunks) = sttLog'[1].audio
          /\ (ret'.step = "begin" /\ inflight'[ret'.call] # Idle) =>
               Concat(audioBuffers[s].chunks)
                 = inflight'[ret'.call].locals.audio
    ]_vars

\* ------------------------------------------------------------------------
\* C28 (an interrupt is not overwritten by a message under way). If
\* setInterrupted(sessionId, true) has completed while a processMessage
\* call for the session was waiting for the completion, then the session
\* that processMessage stores has interrupted = true.
\* ------------------------------------------------------------------------

InterruptSurvives ==
  [][ (/\ ret'.op = "processMessage"
       /\ ret'.step = "set"
       /\ inflight[ret'.call].locals.interruptedMeanwhile) =>
        cache'[ret'.sessionId].interrupted = TRUE
    ]_vars

\* ------------------------------------------------------------------------
\* initializeSession and endSession calls overlapping, for different ids
\* ------------------------------------------------------------------------

\* The session each call slot creates and ends, so that two calls under
\* way at once are always for different ids.
sessionOf(k) == IF k = "k1" THEN Speaker ELSE Bystander

NextIndex ==
  \/ \E k \in Calls : InitializeBegin(k, sessionOf(k), NoUser)
  \/ \E k \in Calls : EndBegin(k, sessionOf(k))
  \/ \E k \in Calls : EndDel(k)
  \/ \E k \in Calls : IndexRead(k)
  \/ \E k \in Calls : IndexWrite(k)

SpecIndex == InitAsync /\ [][NextIndex]_vars

Quiescent == \A k \in Calls : inflight[k] = Idle

\* ------------------------------------------------------------------------
\* C29 (no lost update on the active-session list). When initializeSession
\* and endSession calls for different ids overlap, then once all of them
\* have returned the list holds exactly the ids of the sessions that are
\* stored: no created session's id is missing, no ended session's id
\* remains.
\* ------------------------------------------------------------------------

IndexMatchesStore ==
  Quiescent =>
    \A s \in Sessions :
      Exists(s) <=> includes(orEmpty(activeSessions), s)

====
